---- MODULE Spec2Model ----
(***************************************************************************)
(* A model of tidb_vector: the metadata-filter compiler of                 *)
(* TiDBVectorClient (integrations/vector_client.py) with the query and     *)
(* delete calls that use it, and the vector codec (utils.py).              *)
(*                                                                         *)
(* Python strings are sequences of one-character strings, so that          *)
(* str.lower, slicing, split and join are modelled by what they do.        *)
(* A Python dict is the sequence of its entries in insertion order, with   *)
(* pairwise different keys.                                                *)
(***************************************************************************)
EXTENDS Integers, Sequences, FiniteSets, TLC

VARIABLES
    table,      \* the rows of the vector table
    filters,    \* the filter argument of the calls of this behaviour
    call,       \* the most recent client call and its arguments
    filter_by,  \* what _build_filter_clause returned in that call
    results,    \* the rows the most recent query returned, in order
    stmts,      \* the statements the most recent call sent to the database
    value,      \* the vector handed to encode_vector
    dim,        \* the dimension handed to encode_vector
    wire,       \* what encode_vector returned: the wire literal
    decoded,    \* what decode_vector returned for the stored literal
    db,         \* the definition of the table in the database
    client,     \* the TiDBVectorClient that was constructed
    column      \* the column type an ORM adapter constructed

vars == <<table, filters, call, filter_by, results, stmts, value, dim, wire, decoded,
          db, client, column>>

clientVars == <<table, filters, call, filter_by, results, stmts>>
codecVars == <<value, dim, wire, decoded>>
schemaVars == <<db, client, column>>

(***************************************************************************)
(* Bounds of the model.                                                    *)
(***************************************************************************)
MaxWeight == 3   \* entries and list items of a filter, nested ones included
MaxOps == 2      \* keys of one operator object
MaxK == 2        \* the k of a query
MaxLen == 3      \* elements of a vector
MaxBatch == 2    \* documents of a batch handed to insert
MaxCalls == 2    \* calls made in a row on one adaptor, client or schema
MaxStores == 2   \* VectorStore instances constructed in one process

(***************************************************************************)
(* Strings.                                                                *)
(***************************************************************************)
Upper == <<"A","B","C","D","E","F","G","H","I","J","K","L","M",
           "N","O","P","Q","R","S","T","U","V","W","X","Y","Z">>
LowerLetters == <<"a","b","c","d","e","f","g","h","i","j","k","l","m",
                  "n","o","p","q","r","s","t","u","v","w","x","y","z">>

\* str.lower on one character
LowerChar(c) ==
    IF \E i \in 1..Len(Upper) : Upper[i] = c
    THEN LowerLetters[CHOOSE i \in 1..Len(Upper) : Upper[i] = c]
    ELSE c

\* str.lower
lower(s) == [i \in 1..Len(s) |-> LowerChar(s[i])]

\* The keys the model uses.
kAnd == <<"$","a","n","d">>
kOr == <<"$","o","r">>
kIn == <<"$","i","n">>
kNin == <<"$","n","i","n">>
kGt == <<"$","g","t">>
kGte == <<"$","g","t","e">>
kLt == <<"$","l","t">>
kLte == <<"$","l","t","e">>
kEq == <<"$","e","q">>
kNe == <<"$","n","e">>
kOrUpper == <<"$","O","R">>
kAndMixed == <<"$","A","n","d">>
kInUpper == <<"$","I","N">>
kEqMixed == <<"$","E","q">>
kGtUpper == <<"$","G","T">>
kNeMixed == <<"$","N","e">>
kFoo == <<"$","f","o","o">>
kPage == <<"p","a","g","e">>
kCat == <<"c","a","t">>

(***************************************************************************)
(* Python values: a scalar, None, a list, a dict.                          *)
(***************************************************************************)
Sc(n) == [t |-> "scalar", x |-> n]
None == [t |-> "none"]
List(l) == [t |-> "list", l |-> l]
Dict(d) == [t |-> "dict", d |-> d]
Entry(k, v) == [k |-> k, v |-> v]

IsDict(v) == v.t = "dict"

(***************************************************************************)
(* The rows of the table: one row for each metadata over the fields page   *)
(* (absent, 1, 2 or 3) and cat (absent, 1 or 2).  emb is the coordinate of *)
(* the row's one-dimensional embedding.                                    *)
(***************************************************************************)
PageVals == 1..3
CatVals == 1..2

Meta(p, c) ==
    [f \in (IF p = 0 THEN {} ELSE {kPage}) \cup (IF c = 0 THEN {} ELSE {kCat}) |->
        IF f = kPage THEN p ELSE c]

Row(p, c) == [id |-> p * 3 + c + 1, emb |-> p * 3 + c + 1, meta |-> Meta(p, c)]

Rows == {Row(p, c) : p \in {0} \cup PageVals, c \in {0} \cup CatVals}

(***************************************************************************)
(* The filters the calls are given.  A filter is None or a dict; its       *)
(* weight is the number of its entries and list items, nested ones         *)
(* included.                                                               *)
(***************************************************************************)
FilterScalars == 1..2

\* entries without $and / $or: scalar fields, operator objects, an operator
\* object without a recognised key, and bare operator tokens
FieldEntries ==
    { Entry(kPage, Sc(1)), Entry(kCat, Sc(1)),
      Entry(kPage, Dict(<<Entry(kGt, Sc(1))>>)),
      Entry(kPage, Dict(<<Entry(kFoo, Sc(1))>>)),
      Entry(kGt, Sc(1)), Entry(kNeMixed, Sc(1)) }

LogicKeys == {kAnd, kOr}

\* list items that are not dicts
NonMapping == {None, Sc(5)}

\* the list items of weight a, given the dicts of weight a
ItemsW(a, specs) ==
    (IF a = 1 THEN NonMapping \cup {Dict(<<>>)} ELSE {})
        \cup {Dict(s) : s \in specs}
\* the entries of weight a, given the lists of weight a - 1
EntriesW(a, lists) ==
    (IF a = 1 THEN FieldEntries ELSE {})
        \cup {Entry(k, List(l)) : k \in LogicKeys, l \in lists}
\* the dicts of weight w = Len(Es), keys pairwise different, given the entries
\* Es[a] of weight a and the dicts Ss[b + 1] of weight b < w
SpecsW(Es, Ss) ==
    LET w == Len(Es)
    IN  UNION {UNION {{<<e>> \o s : s \in {s2 \in Ss[w - a + 1] :
                                        \A j \in 1..Len(s2) : s2[j].k # e.k}}
                      : e \in Es[a]}
               : a \in 1..w}
\* the lists of weight w = Len(Is), given the items Is[a] of weight a and the
\* lists Ls[b + 1] of weight b < w
ListsW(Is, Ls) ==
    LET w == Len(Is)
    IN  UNION {{<<i>> \o l : i \in Is[a], l \in Ls[w - a + 1]} : a \in 1..w}

\* the levels, tabulated for the weights 0..4
S0 == {<<>>}
L0 == {<<>>}
E1 == EntriesW(1, L0)
S1 == IF MaxWeight >= 1 THEN SpecsW(<<E1>>, <<S0>>) ELSE {}
I1 == ItemsW(1, S1)
L1 == IF MaxWeight >= 1 THEN ListsW(<<I1>>, <<L0>>) ELSE {}
E2 == EntriesW(2, L1)
S2 == IF MaxWeight >= 2 THEN SpecsW(<<E1, E2>>, <<S0, S1>>) ELSE {}
I2 == ItemsW(2, S2)
L2 == IF MaxWeight >= 2 THEN ListsW(<<I1, I2>>, <<L0, L1>>) ELSE {}
E3 == EntriesW(3, L2)
S3 == IF MaxWeight >= 3 THEN SpecsW(<<E1, E2, E3>>, <<S0, S1, S2>>) ELSE {}
I3 == ItemsW(3, S3)
L3 == IF MaxWeight >= 3 THEN ListsW(<<I1, I2, I3>>, <<L0, L1, L2>>) ELSE {}
E4 == EntriesW(4, L3)
S4 == IF MaxWeight >= 4 THEN SpecsW(<<E1, E2, E3, E4>>, <<S0, S1, S2, S3>>) ELSE {}

NestedFilters == {Dict(s) : s \in S0 \cup S1 \cup S2 \cup S3 \cup S4}

\* operator objects: up to MaxOps keys, in any order and letter case
OpKeys == {kIn, kNin, kGt, kGte, kLt, kLte, kEq, kNe, kInUpper, kEqMixed, kFoo}
ListOperands == {List(<<>>), List(<<Sc(1)>>), List(<<Sc(2), Sc(3)>>)}
OpOperands(k) ==
    IF lower(k) \in {kIn, kNin} THEN ListOperands ELSE {Sc(n) : n \in FilterScalars}
OpEntries == UNION {{Entry(k, v) : v \in OpOperands(k)} : k \in OpKeys}

RECURSIVE OpObjects(_)
OpObjects(n) ==
    IF n = 0 THEN {<<>>}
    ELSE {<<>>} \cup
         LET rest == OpObjects(n - 1)
         IN  UNION {{<<e>> \o o : o \in {o2 \in rest :
                                             \A j \in 1..Len(o2) : o2[j].k # e.k}}
                    : e \in OpEntries}

FieldFilters ==
    {Dict(<<Entry(kPage, Dict(o))>>) : o \in OpObjects(MaxOps)}
        \cup {Dict(<<Entry(kPage, Sc(n))>>) : n \in FilterScalars}

\* $and / $or in other letter case, also next to their lower-case spelling
CaseFilters ==
    LET p1 == Dict(<<Entry(kPage, Sc(1))>>)
        c1 == Dict(<<Entry(kCat, Sc(1))>>)
    IN  { Dict(<<Entry(kOrUpper, List(<<p1, c1>>))>>),
          Dict(<<Entry(kAndMixed, List(<<p1, c1>>))>>),
          Dict(<<Entry(kAnd, List(<<p1>>)), Entry(kAndMixed, List(<<c1>>))>>),
          Dict(<<Entry(kOrUpper, List(<<p1, c1>>)), Entry(kCat, Sc(1))>>),
          Dict(<<Entry(kOrUpper, List(<<Dict(<<Entry(kGtUpper, Sc(1))>>)>>))>>) }

Filters == {None} \cup NestedFilters \cup CaseFilters

(***************************************************************************)
(* The SQL expressions the compiler builds.  sqlalchemy.true() is the      *)
(* constant TRUE; a clause list joins its clauses by AND or OR, and a      *)
(* clause list without clauses (and_() or or_() called without arguments)  *)
(* renders as a blank string; a comparison applies an operator to          *)
(* json_extract(meta, '$.<key>') and an operand.                           *)
(***************************************************************************)
TrueC == [t |-> "true"]
FalseC == [t |-> "false"]
ClauseList(op, cs) == [t |-> "list", op |-> op, cs |-> cs]
Cmp(key, op, operand) == [t |-> "cmp", f |-> key, op |-> op, x |-> operand]
IdIn(ids) == [t |-> "id_in", l |-> ids]
\* the compiler raised ValueError
Raised == [t |-> "raised"]
\* Python's None where a clause is expected
NoClause == [t |-> "none"]

\* sqlalchemy.and_(*cs): true() is dropped unless nothing else is given; one
\* remaining clause is returned as it is; no argument gives a blank list
and_(cs) ==
    LET kept == SelectSeq(cs, LAMBDA c : c.t # "true")
    IN  IF Len(cs) = 0 THEN ClauseList("and", <<>>)
        ELSE IF Len(kept) = 0 THEN TrueC
        ELSE IF Len(kept) = 1 THEN kept[1]
        ELSE ClauseList("and", kept)

\* or_ giving false() when called without arguments
or_false_when_empty(cs) ==
    IF Len(cs) = 0 THEN FalseC
    ELSE IF \E i \in 1..Len(cs) : cs[i].t = "true" THEN TrueC
    ELSE IF Len(cs) = 1 THEN cs[1]
    ELSE ClauseList("or", cs)

\* sqlalchemy.or_(*cs): true() among the clauses makes the result true(); one
\* clause is returned as it is; no argument gives a blank list
or_(cs) ==
    IF Len(cs) = 0 THEN ClauseList("or", <<>>)
    ELSE IF \E i \in 1..Len(cs) : cs[i].t = "true" THEN TrueC
    ELSE IF Len(cs) = 1 THEN cs[1]
    ELSE ClauseList("or", cs)

\* `OP in map(str.lower, value)`, val being the entries of value
HasOp(val, OP) == \E i \in 1..Len(val) : lower(val[i].k) = OP

\* value_case_insensitive[OP], of the dict {k.lower(): v for k, v in
\* value.items()}: a later entry overwrites an earlier one with the same
\* lowered key
value_case_insensitive(val, OP) ==
    LET last == CHOOSE i \in 1..Len(val) :
                    /\ lower(val[i].k) = OP
                    /\ \A j \in (i + 1)..Len(val) : lower(val[j].k) # OP
    IN  val[last].v

\* an operator object without a recognised key compiled to a clause no row
\* satisfies
unsupported_fail_closed(key, val) == FalseC

\* the else branch of _create_filter_clause: a warning is logged and None
\* is returned
unsupported(key, val) == NoClause

\* _create_filter_clause with $eq looked up before $ne
create_filter_clause_eq_first(key, val) ==
    IF HasOp(val, kIn) THEN Cmp(key, "in", value_case_insensitive(val, kIn))
    ELSE IF HasOp(val, kNin) THEN Cmp(key, "not_in", value_case_insensitive(val, kNin))
    ELSE IF HasOp(val, kGt) THEN Cmp(key, "gt", value_case_insensitive(val, kGt))
    ELSE IF HasOp(val, kGte) THEN Cmp(key, "ge", value_case_insensitive(val, kGte))
    ELSE IF HasOp(val, kLt) THEN Cmp(key, "lt", value_case_insensitive(val, kLt))
    ELSE IF HasOp(val, kLte) THEN Cmp(key, "le", value_case_insensitive(val, kLte))
    ELSE IF HasOp(val, kEq) THEN Cmp(key, "eq", value_case_insensitive(val, kEq))
    ELSE IF HasOp(val, kNe) THEN Cmp(key, "ne", value_case_insensitive(val, kNe))
    ELSE unsupported(key, val)

\* _create_filter_clause with $gte compiled to >
create_filter_clause_gte_as_gt(key, val) ==
    IF HasOp(val, kIn) THEN Cmp(key, "in", value_case_insensitive(val, kIn))
    ELSE IF HasOp(val, kNin) THEN Cmp(key, "not_in", value_case_insensitive(val, kNin))
    ELSE IF HasOp(val, kGt) THEN Cmp(key, "gt", value_case_insensitive(val, kGt))
    ELSE IF HasOp(val, kGte) THEN Cmp(key, "gt", value_case_insensitive(val, kGte))
    ELSE IF HasOp(val, kLt) THEN Cmp(key, "lt", value_case_insensitive(val, kLt))
    ELSE IF HasOp(val, kLte) THEN Cmp(key, "le", value_case_insensitive(val, kLte))
    ELSE IF HasOp(val, kNe) THEN Cmp(key, "ne", value_case_insensitive(val, kNe))
    ELSE IF HasOp(val, kEq) THEN Cmp(key, "eq", value_case_insensitive(val, kEq))
    ELSE unsupported(key, val)

_create_filter_clause(key, val) ==
    IF HasOp(val, kIn) THEN Cmp(key, "in", value_case_insensitive(val, kIn))
    ELSE IF HasOp(val, kNin) THEN Cmp(key, "not_in", value_case_insensitive(val, kNin))
    ELSE IF HasOp(val, kGt) THEN Cmp(key, "gt", value_case_insensitive(val, kGt))
    ELSE IF HasOp(val, kGte) THEN Cmp(key, "ge", value_case_insensitive(val, kGte))
    ELSE IF HasOp(val, kLt) THEN Cmp(key, "lt", value_case_insensitive(val, kLt))
    ELSE IF HasOp(val, kLte) THEN Cmp(key, "le", value_case_insensitive(val, kLte))
    ELSE IF HasOp(val, kNe) THEN Cmp(key, "ne", value_case_insensitive(val, kNe))
    ELSE IF HasOp(val, kEq) THEN Cmp(key, "eq", value_case_insensitive(val, kEq))
    ELSE unsupported(key, val)

\* the operator tokens without $ne
BareOperatorsWithoutNe == {kIn, kNin, kGt, kGte, kLt, kLte, kEq}

BareOperators == {kIn, kNin, kGt, kGte, kLt, kLte, kEq, kNe}

\* the clauses of one level joined by OR
combine_or(filter_clauses) == or_(filter_clauses)

\* how the clauses of one level are combined: and_(filter_by, *filter_clauses)
combine(filter_clauses) == and_(<<TrueC>> \o filter_clauses)

RECURSIVE _build_filter_clause(_), sub_clauses(_, _), filter_clauses(_, _)
\* [build(c) for c in value if isinstance(c, dict)], from item i on: the
\* clauses, or raised when building one of them raises
sub_clauses(lst, i) ==
    IF i > Len(lst) THEN [raised |-> FALSE, cs |-> <<>>]
    ELSE IF ~IsDict(lst[i]) THEN sub_clauses(lst, i + 1)
    ELSE LET c == _build_filter_clause(lst[i])
         IN  IF c.t = "raised" THEN [raised |-> TRUE, cs |-> <<>>]
             ELSE LET rest == sub_clauses(lst, i + 1)
                  IN  IF rest.raised THEN rest
                      ELSE [raised |-> FALSE, cs |-> <<c>> \o rest.cs]
\* the loop over filters.items(), from entry i on
filter_clauses(d, i) ==
    IF i > Len(d) THEN [raised |-> FALSE, cs |-> <<>>]
    ELSE
      LET key == d[i].k
          val == d[i].v
          rest == filter_clauses(d, i + 1)
          \* the outcome of this iteration, then the remaining ones
          then(cs) == IF rest.raised THEN rest
                      ELSE [raised |-> FALSE, cs |-> cs \o rest.cs]
      IN  IF lower(key) = kAnd THEN
              LET and_clauses == sub_clauses(val.l, 1)
              IN  IF and_clauses.raised THEN and_clauses
                  ELSE then(<<and_(and_clauses.cs)>>)
          ELSE IF lower(key) = kOr THEN
              LET or_clauses == sub_clauses(val.l, 1)
              IN  IF or_clauses.raised THEN or_clauses
                  ELSE then(<<or_(or_clauses.cs)>>)
          ELSE IF lower(key) \in BareOperators THEN
              [raised |-> TRUE, cs |-> <<>>]
          ELSE IF IsDict(val) THEN
              LET filter_by_metadata == _create_filter_clause(key, val.d)
              IN  IF filter_by_metadata.t = "none" THEN then(<<>>)
                  ELSE then(<<filter_by_metadata>>)
          ELSE then(<<Cmp(key, "eq", val)>>)
_build_filter_clause(f) ==
    IF f.t = "none" THEN TrueC
    ELSE LET loop == filter_clauses(f.d, 1)
         IN  IF loop.raised THEN Raised ELSE combine(loop.cs)

(***************************************************************************)
(* The database's evaluation of a WHERE clause on a row, in SQL's          *)
(* three-valued logic: "T", "F" or "U" (NULL).  json_extract of a key the  *)
(* metadata does not hold is NULL.  A blank clause list renders nothing    *)
(* ("blank"): it is left out of the list around it, and a WHERE clause     *)
(* that is blank is left out of the statement.                             *)
(***************************************************************************)
Bool3(b) == IF b THEN "T" ELSE "F"

Scalars(l) == {l[i].x : i \in 1..Len(l)}

EvalCmp(c, row) ==
    IF c.op \in {"in", "not_in"} /\ Len(c.x.l) = 0
    THEN \* an empty IN renders (f IN (NULL) AND (1 != 1)), an empty NOT IN
         \* (f NOT IN (NULL) OR (1 = 1))
         Bool3(c.op = "not_in")
    ELSE IF c.f \notin DOMAIN row.meta THEN "U"
    ELSE LET x == row.meta[c.f]
         IN  CASE c.op = "in" -> Bool3(x \in Scalars(c.x.l))
               [] c.op = "not_in" -> Bool3(x \notin Scalars(c.x.l))
               [] c.op = "gt" -> Bool3(x > c.x.x)
               [] c.op = "ge" -> Bool3(x >= c.x.x)
               [] c.op = "lt" -> Bool3(x < c.x.x)
               [] c.op = "le" -> Bool3(x <= c.x.x)
               [] c.op = "ne" -> Bool3(x # c.x.x)
               [] c.op = "eq" -> Bool3(x = c.x.x)

RECURSIVE Eval(_, _)
Eval(c, row) ==
    CASE c.t = "true" -> "T"
      [] c.t = "false" -> "F"
      [] c.t = "cmp" -> EvalCmp(c, row)
      [] c.t = "id_in" -> Bool3(row.id \in Scalars(c.l))
      [] c.t = "list" ->
            LET vs == {Eval(c.cs[i], row) : i \in 1..Len(c.cs)} \ {"blank"}
            IN  IF vs = {} THEN "blank"
                ELSE IF c.op = "and"
                     THEN (IF "F" \in vs THEN "F" ELSE IF "U" \in vs THEN "U" ELSE "T")
                     ELSE (IF "T" \in vs THEN "T" ELSE IF "U" \in vs THEN "U" ELSE "F")

\* the rows a statement with `.filter(c)` works on
Selected(c, row) == Eval(c, row) \in {"T", "blank"}
Matching(c, rows) == {r \in rows : Selected(c, r)}

(***************************************************************************)
(* TiDBVectorClient.query and TiDBVectorClient.delete.  The client was     *)
(* constructed with the distance strategy "l2" over one-dimensional        *)
(* embeddings.                                                             *)
(***************************************************************************)

\* VEC_L2_DISTANCE of the row's embedding and the query vector
Distance(query_vector, row) ==
    IF row.emb >= query_vector THEN row.emb - query_vector
    ELSE query_vector - row.emb

\* ORDER BY distance ASC: every order of the rows that is ascending in the
\* distance (rows at the same distance come in any order)
RECURSIVE OrderByDistance(_, _)
OrderByDistance(rows, q) ==
    IF rows = {} THEN {<<>>}
    ELSE LET nearest == {r \in rows : \A r2 \in rows : Distance(q, r) <= Distance(q, r2)}
         IN  UNION {{<<r>> \o rest : rest \in OrderByDistance(rows \ {r}, q)}
                    : r \in nearest}

\* LIMIT n + 1
LimitOneMore(seq, n) == SubSeq(seq, 1, IF n + 1 < Len(seq) THEN n + 1 ELSE Len(seq))

\* LIMIT n
Limit(seq, n) == SubSeq(seq, 1, IF n < Len(seq) THEN n ELSE Len(seq))

Range(seq) == {seq[i] : i \in 1..Len(seq)}

\* kwargs.get("post_filter_multiplier", 1)
post_filter_multiplier == 1

\* a limit of the subquery that no table reaches
subquery_limit_beyond_table(k) == post_filter_multiplier * k * 1000

\* .limit(post_filter_multiplier * k * 10) of the subquery
subquery_limit(k) == post_filter_multiplier * k * 10

\* `not filter`
Falsy(f) == f.t = "none" \/ Len(f.d) = 0

NoCall == [name |-> "init"]

\* _vector_search, which query wraps
Query(query_vector, k, post_filter_enabled) ==
    /\ call = NoCall
    /\ call' = [name |-> "query", q |-> query_vector, k |-> k,
                post |-> post_filter_enabled]
    /\ LET fb == _build_filter_clause(filters)
       IN  /\ filter_by' = fb
           /\ IF fb.t = "raised"
              THEN \* the exception leaves the session before a query ran
                   /\ results' = <<>>
                   /\ stmts' = <<>>
              ELSE /\ stmts' = <<"select">>
                   /\ IF ~post_filter_enabled \/ Falsy(filters)
                      THEN results' \in
                             {Limit(o, k) :
                                o \in OrderByDistance(Matching(fb, table), query_vector)}
                      ELSE \E sub \in {Limit(o, subquery_limit(k)) :
                                          o \in OrderByDistance(table, query_vector)} :
                             results' \in
                               {Limit(o, k) :
                                  o \in OrderByDistance(Matching(fb, Range(sub)),
                                                        query_vector)}
    /\ UNCHANGED <<table, filters>>
    /\ UNCHANGED codecVars
    /\ UNCHANGED schemaVars

\* the ids arguments of delete
DeleteIds == {None, List(<<>>), List(<<Sc(2), Sc(5), Sc(11)>>)}

\* delete with the ids left out of the statement
DeleteIgnoringIds(ids) ==
    /\ call = NoCall
    /\ call' = [name |-> "delete", ids |-> ids]
    /\ results' = <<>>
    /\ LET fb == _build_filter_clause(filters)
       IN  /\ filter_by' = fb
           /\ IF fb.t = "raised"
              THEN /\ stmts' = <<>>
                   /\ table' = table
              ELSE /\ stmts' = <<"delete">>
                   /\ table' = table \ Matching(fb, table)
    /\ UNCHANGED filters
    /\ UNCHANGED codecVars
    /\ UNCHANGED schemaVars

Delete(ids) ==
    /\ call = NoCall
    /\ call' = [name |-> "delete", ids |-> ids]
    /\ results' = <<>>
    /\ LET fb == _build_filter_clause(filters)
       IN  /\ filter_by' = fb
           /\ IF fb.t = "raised"
              THEN /\ stmts' = <<>>
                   /\ table' = table
              ELSE LET where == IF ids.t # "none" THEN and_(<<IdIn(ids.l), fb>>)
                                ELSE fb
                   IN  /\ stmts' = <<"delete">>
                       /\ table' = table \ Matching(where, table)
    /\ UNCHANGED filters
    /\ UNCHANGED codecVars
    /\ UNCHANGED schemaVars

(***************************************************************************)
(* The filter specification: a client over a populated table is given a    *)
(* filter and makes one call.                                              *)
(***************************************************************************)
NotStarted == [t |-> "idle"]

InitCodecIdle ==
    /\ value = NotStarted
    /\ dim = NotStarted
    /\ wire = NotStarted
    /\ decoded = NotStarted

\* the table as the database holds it: the dimension of the embedding
\* column (None: not fixed), the distance named in the column comment (""
\* for none), and the rows SHOW INDEX returns for the table
TableDef(dimension, distance, index) ==
    [t |-> "table", dim |-> dimension, distance |-> distance, index |-> index]
NoTable == [t |-> "absent"]

\* a constructed client: self._vector_dimension, self._distance_strategy and
\* the dimension of the embedding column of self._table_model
Client(vector_dimension, distance_strategy, model_dim) ==
    [t |-> "client", _vector_dimension |-> vector_dimension,
     _distance_strategy |-> distance_strategy, model_dim |-> model_dim]

\* the filter and operator specifications run a client of dimension 1 and
\* distance l2 over its table
InitClientReady ==
    /\ db = TableDef(Sc(1), "l2", {})
    /\ client = Client(Sc(1), "l2", Sc(1))
    /\ column = NotStarted

InitSchemaIdle ==
    /\ db = NoTable
    /\ client = NotStarted
    /\ column = NotStarted

InitFilter ==
    /\ table = Rows
    /\ filters \in Filters
    /\ call = NoCall
    /\ filter_by = NoClause
    /\ results = <<>>
    /\ stmts = <<>>
    /\ InitCodecIdle
    /\ InitClientReady

\* the arguments of query: the query vector, k, post_filter_enabled
QueryArgs ==
    { <<0, 1, FALSE>>, <<13, MaxK, FALSE>>, <<0, MaxK, TRUE>>, <<13, 1, TRUE>> }

NextFilter ==
    \/ \E a \in QueryArgs : Query(a[1], a[2], a[3])
    \/ \E ids \in DeleteIds : Delete(ids)

SpecFilter == InitFilter /\ [][NextFilter]_vars

(***************************************************************************)
(* The operator specification: the same client and calls, the filter being *)
(* one field with an operator object.                                      *)
(***************************************************************************)
InitOps ==
    /\ table = Rows
    /\ filters \in FieldFilters
    /\ call = NoCall
    /\ filter_by = NoClause
    /\ results = <<>>
    /\ stmts = <<>>
    /\ InitCodecIdle
    /\ InitClientReady

\* the calls made with an operator filter
OpsQueryArgs == { <<0, 1, FALSE>>, <<13, MaxK, TRUE>> }
OpsDeleteIds == { None, List(<<Sc(2), Sc(5), Sc(11)>>) }

NextOps ==
    \/ \E a \in OpsQueryArgs : Query(a[1], a[2], a[3])
    \/ \E ids \in OpsDeleteIds : Delete(ids)

SpecOps == InitOps /\ [][NextOps]_vars

(***************************************************************************)
(* The post-filter specification: the same client queries with and without *)
(* post_filter_enabled, over a table that holds more rows than the         *)
(* subquery of a query with k = 1 takes.                                   *)
(***************************************************************************)
PostFilters ==
    { None, Dict(<<>>),
      Dict(<<Entry(kPage, Sc(1))>>), Dict(<<Entry(kPage, Sc(3))>>),
      Dict(<<Entry(kCat, Sc(1))>>), Dict(<<Entry(kCat, Sc(2))>>),
      Dict(<<Entry(kPage, Sc(3)), Entry(kCat, Sc(2))>>),
      Dict(<<Entry(kPage, Sc(3)), Entry(kCat, Sc(1))>>),
      Dict(<<Entry(kPage, Dict(<<Entry(kGt, Sc(1))>>))>>),
      Dict(<<Entry(kPage, Dict(<<Entry(kFoo, Sc(1))>>))>>),
      Dict(<<Entry(kOr, List(<<Dict(<<Entry(kPage, Sc(3))>>),
                               Dict(<<Entry(kCat, Sc(2))>>)>>))>>),
      Dict(<<Entry(kGt, Sc(1))>>) }

InitPost ==
    /\ table = Rows
    /\ filters \in PostFilters
    /\ call = NoCall
    /\ filter_by = NoClause
    /\ results = <<>>
    /\ stmts = <<>>
    /\ InitCodecIdle
    /\ InitClientReady

NextPost ==
    \E query_vector \in {0, 13}, k \in 1..MaxK, post_filter_enabled \in BOOLEAN :
        Query(query_vector, k, post_filter_enabled)

SpecPost == InitPost /\ [][NextPost]_vars

(***************************************************************************)
(* The vector codec.  A Python float is a multiple of 1/16, held as the    *)
(* number of sixteenths; a 32-bit float is a multiple of 1/4; narrowing    *)
(* rounds to the nearest one, ties to the even one.                        *)
(***************************************************************************)
Abs(n) == IF n < 0 THEN -n ELSE n

\* numpy's cast of a Python float to float32
Float32(n) ==
    LET q == n \div 4
        rem == n % 4
    IN  IF rem < 2 THEN 4 * q
        ELSE IF rem > 2 THEN 4 * (q + 1)
        ELSE IF q % 2 = 0 THEN 4 * q ELSE 4 * (q + 1)

DigitChars == <<"0","1","2","3","4","5","6","7","8","9">>
IsDigit(c) == \E d \in 1..10 : DigitChars[d] = c
DigitVal(c) == (CHOOSE d \in 1..10 : DigitChars[d] = c) - 1

\* str of a natural number
RECURSIVE NatStr(_)
NatStr(n) ==
    IF n < 10 THEN <<DigitChars[n + 1]>>
    ELSE NatStr(n \div 10) \o <<DigitChars[(n % 10) + 1]>>

RECURSIVE StripZeros(_)
StripZeros(ds) ==
    IF Len(ds) > 1 /\ ds[Len(ds)] = "0" THEN StripZeros(SubSeq(ds, 1, Len(ds) - 1))
    ELSE ds

\* the digits after the point: those of sixteenths / 16, at least one
FracStr(sixteenths) ==
    LET m == sixteenths * 625
    IN  StripZeros(<<DigitChars[(m \div 1000) + 1], DigitChars[((m \div 100) % 10) + 1],
                     DigitChars[((m \div 10) % 10) + 1], DigitChars[(m % 10) + 1]>>)

\* str(int(v)): the digits before the point alone
IntStr(n) == (IF n < 0 THEN <<"-">> ELSE <<>>) \o NatStr(Abs(n) \div 16)

\* str(float(v))
FloatStr(n) ==
    (IF n < 0 THEN <<"-">> ELSE <<>>)
        \o NatStr(Abs(n) \div 16) \o <<".">> \o FracStr(Abs(n) % 16)

\* sep.join(tokens)
RECURSIVE Join(_, _)
Join(tokens, sep) ==
    IF Len(tokens) = 0 THEN <<>>
    ELSE IF Len(tokens) = 1 THEN tokens[1]
    ELSE tokens[1] \o sep \o Join(Tail(tokens), sep)

\* s.split(sep), sep being one character: the empty string gives one empty
\* token
RECURSIVE Split(_, _)
Split(str, sep) ==
    IF \E i \in 1..Len(str) : str[i] = sep
    THEN LET at == CHOOSE i \in 1..Len(str) :
                      str[i] = sep /\ \A j \in 1..(i - 1) : str[j] # sep
         IN  <<SubSeq(str, 1, at - 1)>> \o Split(SubSeq(str, at + 1, Len(str)), sep)
    ELSE <<str>>

RECURSIVE Pow10(_)
Pow10(k) == IF k = 0 THEN 1 ELSE 10 * Pow10(k - 1)

RECURSIVE NatVal(_)
NatVal(ds) ==
    IF Len(ds) = 0 THEN 0
    ELSE 10 * NatVal(SubSeq(ds, 1, Len(ds) - 1)) + DigitVal(ds[Len(ds)])

\* s.strip() of blanks
RECURSIVE strip(_)
strip(str) ==
    IF Len(str) > 0 /\ str[1] = " " THEN strip(Tail(str))
    ELSE IF Len(str) > 0 /\ str[Len(str)] = " " THEN strip(SubSeq(str, 1, Len(str) - 1))
    ELSE str

\* the conversion of a token to a float: an optional sign, digits, and
\* optionally a point and digits, with at least one digit; blanks around it
\* are ignored.  (Exponents, inf and nan are not modelled.)
ParseFloat(token) ==
    LET str == strip(token)
        signed == Len(str) > 0 /\ str[1] \in {"-", "+"}
        body == IF signed THEN Tail(str) ELSE str
        hasPoint == \E i \in 1..Len(body) : body[i] = "."
        point == IF hasPoint THEN CHOOSE i \in 1..Len(body) : body[i] = "."
                 ELSE Len(body) + 1
        ip == SubSeq(body, 1, point - 1)
        fp == SubSeq(body, point + 1, Len(body))
        wellFormed == /\ \A i \in 1..Len(ip) : IsDigit(ip[i])
                      /\ \A i \in 1..Len(fp) : IsDigit(fp[i])
                      /\ Len(ip) + Len(fp) > 0
        \* the nearest multiple of 1/16, ties to the even one
        num == NatVal(fp) * 16
        den == Pow10(Len(fp))
        q == num \div den
        twice == 2 * (num % den)
        frac == IF twice < den THEN q
                ELSE IF twice > den THEN q + 1
                ELSE IF q % 2 = 0 THEN q ELSE q + 1
        magnitude == NatVal(ip) * 16 + frac
    IN  IF wellFormed
        THEN [ok |-> TRUE, n |-> IF signed /\ str[1] = "-" THEN -magnitude ELSE magnitude]
        ELSE [ok |-> FALSE, n |-> 0]

\* the values handed to the codec
Vec(kind, ndim, dtype, data) == [t |-> kind, ndim |-> ndim, dtype |-> dtype, data |-> data]
PyList(data) == Vec("list", 1, "object", data)
NdArray(dtype, data) == Vec("ndarray", 1, dtype, data)
\* a plain sequence of Python objects: numbers, booleans, strings, None
ObjList(items) == [t |-> "objects", items |-> items]
Num(n) == [t |-> "num", n |-> n]
Bool(b) == [t |-> "bool", b |-> b]
Str(chars) == [t |-> "str", s |-> chars]
Bytes(chars) == [t |-> "bytes", s |-> chars]
RaisedError(what) == [t |-> "raised", err |-> what]

\* `dim is not None and len(value) != dim`, reporting a mismatch only for a
\* value that is too long
dim_mismatch_only_longer(data, d) == d.t # "none" /\ Len(data) > d.x

\* `dim is not None and len(value) != dim`
dim_mismatch(data, d) == d.t # "none" /\ Len(data) # d.x

\* np.issubdtype(dtype, np.integer) or np.issubdtype(dtype, np.floating),
\* taking the boolean dtype for an integer one
IsNumericDTypeOrBool(dtype) == dtype \in {"int64", "float64", "float32", "bool"}

\* np.issubdtype(dtype, np.integer) or np.issubdtype(dtype, np.floating)
IsNumericDType(dtype) == dtype \in {"int64", "float64", "float32"}

\* "[" + ",".join([str(float(v)) for v in value]) + "]", with str(int(v))
literal_of_ints(data) ==
    <<"[">> \o Join([i \in 1..Len(data) |-> IntStr(data[i])], <<",">>) \o <<"]">>

\* "[" + ",".join([str(float(v)) for v in value]) + "]"
literal(data) ==
    <<"[">> \o Join([i \in 1..Len(data) |-> FloatStr(data[i])], <<",">>) \o <<"]">>

\* float(v) of an element of a plain sequence: a number is taken as it is,
\* True is 1.0 and False 0.0, a string is parsed, None is refused
ToFloat(item) ==
    CASE item.t = "num" -> [ok |-> TRUE, n |-> item.n]
      [] item.t = "bool" -> [ok |-> TRUE, n |-> IF item.b THEN 16 ELSE 0]
      [] item.t = "str" -> ParseFloat(item.s)
      [] OTHER -> [ok |-> FALSE, n |-> 0]

\* the encoding of a plain sequence of objects: the dimension check, then
\* str(float(v)) of every element
encode_objects(items, d) ==
    IF dim_mismatch(items, d) THEN RaisedError("expected dimensions")
    ELSE IF \A i \in 1..Len(items) : ToFloat(items[i]).ok
         THEN Str(literal([i \in 1..Len(items) |-> ToFloat(items[i]).n]))
         ELSE RaisedError("could not convert to float")

encode_vector(v, d) ==
    IF v.t = "none" THEN None
    ELSE IF v.t = "objects" THEN encode_objects(v.items, d)
    ELSE IF v.t = "ndarray" /\ v.ndim # 1 THEN RaisedError("expected ndim to be 1")
    ELSE IF v.t = "ndarray" /\ ~IsNumericDType(v.dtype)
         THEN RaisedError("dtype must be numeric")
    ELSE IF dim_mismatch(v.data, d) THEN RaisedError("expected dimensions")
    ELSE Str(literal(v.data))

\* np.array(tokens, dtype=np.float32)
ArrayOfTokens(tokens) ==
    IF \A i \in 1..Len(tokens) : ParseFloat(tokens[i]).ok
    THEN NdArray("float32", [i \in 1..Len(tokens) |-> Float32(ParseFloat(tokens[i]).n)])
    ELSE RaisedError("could not convert string to float")

decode_vector(v) ==
    IF v.t = "none" \/ v.t = "ndarray" THEN v
    ELSE \* bytes are decoded as UTF-8 first
         ArrayOfTokens(Split(SubSeq(v.s, 2, Len(v.s) - 1), ","))

(***************************************************************************)
(* The codec specification: a vector and a dimension are given, the vector *)
(* is encoded, and the literal is decoded, as text or as bytes.            *)
(***************************************************************************)
Elements == {0, 16, 32, 48, 26, -17, 200}

RECURSIVE SeqsUpTo(_, _)
SeqsUpTo(S, n) ==
    IF n = 0 THEN {<<>>}
    ELSE LET shorter == SeqsUpTo(S, n - 1)
         IN  shorter \cup {Append(q, x) : q \in {q2 \in shorter : Len(q2) = n - 1}, x \in S}

\* the objects a plain sequence may hold besides numbers
Items ==
    { Num(16), Bool(TRUE), Bool(FALSE), None, Str(<<"1", ".", "5">>), Str(<<" ", "2", " ">>),
      Str(<<"a", "b", "c">>), Str(<<>>) }
ObjectLists == {ObjList(items) : items \in SeqsUpTo(Items, 2)}

Vectors ==
    {None}
        \cup {PyList(data) : data \in SeqsUpTo(Elements, MaxLen)}
        \cup {NdArray("float64", data) : data \in SeqsUpTo(Elements, MaxLen)}
        \cup { NdArray("int64", <<16, 32, 48>>), NdArray("bool", <<16, 0>>),
               NdArray("str", <<16>>), Vec("ndarray", 2, "float64", <<16, 32>>) }
        \cup ObjectLists

Dims == {None} \cup {Sc(n) : n \in 0..(MaxLen + 1)}

InitClientIdle ==
    /\ table = {}
    /\ filters = None
    /\ call = NoCall
    /\ filter_by = NoClause
    /\ results = <<>>
    /\ stmts = <<>>

InitCodec ==
    /\ value \in Vectors
    /\ dim \in Dims
    /\ wire = NotStarted
    /\ decoded = NotStarted
    /\ InitClientIdle
    /\ InitSchemaIdle

Encode ==
    /\ wire = NotStarted
    /\ wire' = encode_vector(value, dim)
    /\ UNCHANGED <<value, dim, decoded>>
    /\ UNCHANGED clientVars
    /\ UNCHANGED schemaVars

Decode(as_bytes) ==
    /\ wire.t \in {"str", "none"}
    /\ decoded = NotStarted
    /\ decoded' = decode_vector(IF wire.t = "str" /\ as_bytes THEN Bytes(wire.s) ELSE wire)
    /\ UNCHANGED <<value, dim, wire>>
    /\ UNCHANGED clientVars
    /\ UNCHANGED schemaVars

NextCodec ==
    \/ Encode
    \/ \E as_bytes \in BOOLEAN : Decode(as_bytes)

SpecCodec == InitCodec /\ [][NextCodec]_vars

(***************************************************************************)
(* The decoding specification: the database hands a text, well-formed or   *)
(* not, to decode_vector, as text or as bytes.                             *)
(***************************************************************************)
Tokens == { <<"1", ".", "5">>, <<"1", "2">>, <<"-", "2">>, <<"a", "b", "c">>, <<>> }
Openings == { <<"[">>, <<"(">>, <<>> }
Closings == { <<"]">>, <<>> }
Literals ==
    {open \o Join(tokens, <<",">>) \o close :
        open \in Openings, tokens \in SeqsUpTo(Tokens, 2), close \in Closings}

InitDecode ==
    /\ value = None
    /\ dim = None
    /\ wire \in {Str(text) : text \in Literals}
    /\ decoded = NotStarted
    /\ InitClientIdle
    /\ InitSchemaIdle

NextDecode == \E as_bytes \in BOOLEAN : Decode(as_bytes)

SpecDecode == InitDecode /\ [][NextDecode]_vars

(***************************************************************************)
(* The ORM adapters: the column types of SQLAlchemy, Peewee and Django,    *)
(* what they hand to the database for a vector, and the vector index       *)
(* helpers of the SQLAlchemy and Peewee adaptors.                          *)
(***************************************************************************)
MIN_DIM == 1
MAX_DIM == 16000

\* the name of the column the adapters are asked about
ColumnName == <<"v">>

Column(adapter, kind, dimension) ==
    [t |-> "column", adapter |-> adapter, kind |-> kind, dim |-> dimension,
     name |-> ColumnName]

\* sqlalchemy: VectorType(dim)
VectorType(d) ==
    IF d.t # "none" /\ d.t # "scalar"
    THEN RaisedError("expected dimension to be an integer or None")
    ELSE IF d.t # "none" /\ (d.x < MIN_DIM \/ d.x > MAX_DIM)
    THEN RaisedError("expected dimension to be in [MIN_DIM, MAX_DIM]")
    ELSE Column("sqlalchemy", "vector", d)

\* peewee: VectorField(dimensions)
PeeweeVectorField(dimensions) == Column("peewee", "vector", dimensions)

\* the names tidb_vector.constants defines, and those tidb_vector.django
\* imports from it
ConstantsNames == {"MAX_DIM", "MIN_DIM", "VectorDataType", "DistanceMetric"}
DjangoImports == {"MAX_DIM_LENGTH", "MIN_DIM_LENGTH"}

\* django: VectorField(dimensions=...), after the import of the module
DjangoVectorField(dimensions) ==
    IF DjangoImports \subseteq ConstantsNames
    THEN Column("django", "vector", dimensions)
    ELSE RaisedError("ImportError: cannot import name from tidb_vector.constants")

Adapters == {"sqlalchemy", "peewee", "django"}

\* the construction of a column: a vector column of the adapter, or a
\* column of another type
NewColumn(adapter, kind, d) ==
    IF kind # "vector" THEN Column(adapter, kind, None)
    ELSE IF adapter = "sqlalchemy" THEN VectorType(d)
    ELSE IF adapter = "peewee" THEN PeeweeVectorField(d)
    ELSE DjangoVectorField(d)

\* what the column hands to the database for a vector: bind_processor of
\* sqlalchemy, db_value of peewee, get_prep_value of django
db_value(col, v) ==
    IF col.adapter = "sqlalchemy" THEN encode_vector(v, col.dim)
    ELSE encode_vector(v, None)

\* self._check_vector_column(column)
IsVectorColumn(col) == col.kind = "vector"

\* one row of SHOW INDEX: the name of the index, the column it covers, its
\* type, and for a vector index the distance function it was built with
IndexRow(Key_name, Column_name, Index_type, func) ==
    [Key_name |-> Key_name, Column_name |-> Column_name,
     Index_type |-> Index_type, func |-> func]

\* DistanceMetric and DistanceMetric.to_sql_func
DistanceMetric == {"L2", "COSINE"}
to_sql_func(distance_metric) ==
    IF distance_metric = "L2" THEN "VEC_L2_DISTANCE"
    ELSE IF distance_metric = "COSINE" THEN "VEC_COSINE_DISTANCE"
    ELSE "unsupported distance metric"

\* the loop of has_vector_index over the rows of SHOW INDEX
column_is_listed(col, rows) ==
    \E row \in rows : lower(row.Column_name) = lower(col.name)

\* has_vector_index: the statements sent and what is returned
has_vector_index(col, table_def) ==
    IF ~IsVectorColumn(col)
    THEN [raised |-> TRUE, sent |-> <<>>, returned |-> FALSE]
    ELSE [raised |-> FALSE, sent |-> <<"show index">>,
          returned |-> column_is_listed(col, table_def.index)]

\* f"vec_idx_{column.name}"
index_name(col) == <<"v", "e", "c", "_", "i", "d", "x", "_">> \o col.name

\* ALTER TABLE ... ADD VECTOR INDEX as the database runs it: an index name
\* that is taken is refused, otherwise the index is added
add_vector_index(col, distance_metric, rows) ==
    IF \E row \in rows : lower(row.Key_name) = lower(index_name(col))
    THEN [raised |-> TRUE, index |-> rows]
    ELSE [raised |-> FALSE,
          index |-> rows \cup {IndexRow(index_name(col), col.name, "VECTOR",
                                        to_sql_func(distance_metric))}]

\* create_vector_index without the check of the dimension
create_vector_index_unchecked_dim(col, distance_metric, skip_existing, table_def) ==
    IF ~IsVectorColumn(col)
    THEN [raised |-> TRUE, sent |-> <<>>, index |-> table_def.index]
    ELSE IF skip_existing /\ has_vector_index(col, table_def).returned
    THEN [raised |-> FALSE, sent |-> <<"show index">>, index |-> table_def.index]
    ELSE LET added == add_vector_index(col, distance_metric, table_def.index)
         IN  [raised |-> added.raised,
              sent |-> (IF skip_existing THEN <<"show index">> ELSE <<>>)
                          \o <<"set tiflash replica", "add vector index">>,
              index |-> added.index]

\* create_vector_index that adds the index although one is found
create_vector_index_never_skipping(col, distance_metric, skip_existing, table_def) ==
    IF ~IsVectorColumn(col) \/ col.dim.t = "none"
    THEN [raised |-> TRUE, sent |-> <<>>, index |-> table_def.index]
    ELSE LET added == add_vector_index(col, distance_metric, table_def.index)
         IN  [raised |-> added.raised,
              sent |-> (IF skip_existing THEN <<"show index">> ELSE <<>>)
                          \o <<"set tiflash replica", "add vector index">>,
              index |-> added.index]

\* create_vector_index: whether it raised, the statements sent, and the
\* indexes of the table afterwards
create_vector_index(col, distance_metric, skip_existing, table_def) ==
    IF ~IsVectorColumn(col)
    THEN [raised |-> TRUE, sent |-> <<>>, index |-> table_def.index]
    ELSE IF col.dim.t = "none"
    THEN [raised |-> TRUE, sent |-> <<>>, index |-> table_def.index]
    ELSE IF skip_existing /\ has_vector_index(col, table_def).returned
    THEN [raised |-> FALSE, sent |-> <<"show index">>, index |-> table_def.index]
    ELSE LET added == add_vector_index(col, distance_metric, table_def.index)
         IN  [raised |-> added.raised,
              sent |-> (IF skip_existing THEN <<"show index">> ELSE <<>>)
                          \o <<"set tiflash replica", "add vector index">>,
              index |-> added.index]

\* the indexes a table may hold before the adaptor is used: the primary key
\* on another column, an ordinary index on the column, a vector index that
\* create_vector_index made
PrimaryKey == IndexRow(<<"P", "R", "I", "M", "A", "R", "Y">>, <<"i", "d">>, "BTREE", "")
OrdinaryIndex == IndexRow(<<"i", "d", "x", "_", "v">>, ColumnName, "BTREE", "")
VectorIndex(func) ==
    IndexRow(<<"v", "e", "c", "_", "i", "d", "x", "_", "v">>, ColumnName, "VECTOR", func)

\* the dimensions declared for a column
DimArgs == {None} \cup {Sc(n) : n \in {-1, 0, 1, 2, 3, MAX_DIM, MAX_DIM + 1}}
AdaptorVectors ==
    { None, PyList(<<>>), PyList(<<16>>), PyList(<<16, 32>>), PyList(<<16, 32, 48>>),
      NdArray("float64", <<16, 32>>) }

InitAdaptor ==
    /\ value \in AdaptorVectors
    /\ dim \in DimArgs
    /\ wire = NotStarted
    /\ decoded = NotStarted
    /\ InitClientIdle
    /\ db \in {TableDef(None, "", index) : index \in {{}, {VectorIndex("VEC_L2_DISTANCE")}}}
    /\ client = NotStarted
    /\ column = NotStarted

Construct(adapter, kind) ==
    /\ column = NotStarted
    /\ column' = NewColumn(adapter, kind, dim)
    /\ UNCHANGED <<db, client>>
    /\ UNCHANGED codecVars
    /\ UNCHANGED clientVars

\* a row holding the vector is written through the column
Write ==
    /\ column.t = "column"
    /\ IsVectorColumn(column)
    /\ wire = NotStarted
    /\ call = NoCall
    /\ wire' = db_value(column, value)
    /\ stmts' = IF wire'.t = "raised" THEN stmts ELSE Append(stmts, "insert")
    /\ UNCHANGED <<value, dim, decoded>>
    /\ UNCHANGED <<table, filters, call, filter_by, results>>
    /\ UNCHANGED schemaVars

CreateVectorIndex(distance_metric, skip_existing) ==
    /\ column.t = "column"
    /\ column.adapter \in {"sqlalchemy", "peewee"}
    /\ call = NoCall
    /\ wire = NotStarted
    /\ LET done == create_vector_index(column, distance_metric, skip_existing, db)
       IN  /\ call' = [name |-> "create_vector_index", raised |-> done.raised]
           /\ stmts' = done.sent
           /\ db' = [db EXCEPT !.index = done.index]
    /\ UNCHANGED <<client, column>>
    /\ UNCHANGED <<table, filters, filter_by, results>>
    /\ UNCHANGED codecVars

HasVectorIndex ==
    /\ column.t = "column"
    /\ column.adapter \in {"sqlalchemy", "peewee"}
    /\ call.name \in {"init", "create_vector_index"}
    /\ wire = NotStarted
    /\ LET done == has_vector_index(column, db)
       IN  /\ call' = [name |-> "has_vector_index", raised |-> done.raised,
                       returned |-> done.returned, after |-> call]
           /\ stmts' = done.sent
    /\ UNCHANGED schemaVars
    /\ UNCHANGED <<table, filters, filter_by, results>>
    /\ UNCHANGED codecVars

NextAdaptor ==
    \/ \E adapter \in Adapters, kind \in {"vector", "integer"} : Construct(adapter, kind)
    \/ Write
    \/ \E distance_metric \in DistanceMetric, skip_existing \in BOOLEAN :
          CreateVectorIndex(distance_metric, skip_existing)
    \/ HasVectorIndex

SpecAdaptor == InitAdaptor /\ [][NextAdaptor]_vars

(***************************************************************************)
(* The index specification: a VectorAdaptor (SQLAlchemy or Peewee) is      *)
(* asked several times in a row to create the index of a column, or        *)
(* whether the column has one, over a table that may hold indexes already. *)
(***************************************************************************)
IndexedColumns ==
    {Column(adapter, "vector", d) : adapter \in {"sqlalchemy", "peewee"},
                                    d \in {None, Sc(3)}}

InitIndex ==
    /\ InitCodecIdle
    /\ table = {} /\ filters = None /\ filter_by = NoClause
    /\ results = <<>> /\ stmts = <<>>
    /\ call = [name |-> "init", made |-> 0]
    /\ db \in {TableDef(None, "", index) :
                index \in SUBSET {PrimaryKey, OrdinaryIndex, VectorIndex("VEC_L2_DISTANCE")}}
    /\ client = NotStarted
    /\ column \in IndexedColumns

\* adaptor.create_vector_index(column, distance_metric, skip_existing)
Adaptor_create_vector_index(distance_metric, skip_existing) ==
    /\ call.made < MaxCalls
    /\ LET done == create_vector_index(column, distance_metric, skip_existing, db)
       IN  /\ call' = [name |-> "create_vector_index", made |-> call.made + 1,
                       distance_metric |-> distance_metric,
                       skip_existing |-> skip_existing, raised |-> done.raised]
           /\ stmts' = done.sent
           /\ db' = [db EXCEPT !.index = done.index]
    /\ UNCHANGED <<client, column>>
    /\ UNCHANGED <<table, filters, filter_by, results>>
    /\ UNCHANGED codecVars

\* adaptor.has_vector_index(column)
Adaptor_has_vector_index ==
    /\ call.made < MaxCalls
    /\ LET done == has_vector_index(column, db)
       IN  /\ call' = [name |-> "has_vector_index", made |-> call.made + 1,
                       raised |-> done.raised, returned |-> done.returned]
           /\ stmts' = done.sent
    /\ UNCHANGED schemaVars
    /\ UNCHANGED <<table, filters, filter_by, results>>
    /\ UNCHANGED codecVars

NextIndex ==
    \/ \E distance_metric \in DistanceMetric, skip_existing \in BOOLEAN :
          Adaptor_create_vector_index(distance_metric, skip_existing)
    \/ Adaptor_has_vector_index

SpecIndex == InitIndex /\ [][NextIndex]_vars

(***************************************************************************)
(* The distance specification: a distance helper of an adapter is applied  *)
(* to a vector and emits an SQL expression over the column.                *)
(***************************************************************************)
Metrics == {"l1", "l2", "cosine", "inner_product"}

\* an SQL expression over the column and the encoded vector: a function
\* call, or the name put between the two as an operator
FunctionCall(function, rhs) ==
    [form |-> "call", function |-> function, rhs |-> rhs]
Infix(op, rhs) == [form |-> "infix", function |-> op, rhs |-> rhs]

\* sqlalchemy: VectorType.comparator_factory.l1_distance, l2_distance,
\* cosine_distance, negative_inner_product
comparator_factory(metric, other) ==
    LET formatted_other == encode_vector(other, None)
    IN  IF metric = "l1" THEN FunctionCall("VEC_L1_DISTANCE", formatted_other)
        ELSE IF metric = "l2" THEN FunctionCall("VEC_L2_DISTANCE", formatted_other)
        ELSE IF metric = "cosine" THEN FunctionCall("VEC_COSINE_DISTANCE", formatted_other)
        ELSE FunctionCall("VEC_NEGATIVE_INNER_PRODUCT", formatted_other)

\* peewee: VectorField._distance and l1_distance, l2_distance,
\* cosine_distance, negative_inner_product
_distance(op, vector) == Infix(op, encode_vector(vector, None))
peewee_distance(metric, vector) ==
    IF metric = "l1" THEN _distance("VEC_L1_DISTANCE", vector)
    ELSE IF metric = "l2" THEN _distance("VEC_L2_DISTANCE", vector)
    ELSE IF metric = "cosine" THEN _distance("VEC_COSINE_DISTANCE", vector)
    ELSE _distance("VEC_NEGATIVE_INNER_PRODUCT", vector)

\* django: DistanceBase and L1Distance, L2Distance, CosineDistance,
\* MaxInnerProduct
DistanceBase(function, vector) == FunctionCall(function, encode_vector(vector, None))
L1Distance(vector) == DistanceBase("VEC_L1_DISTANCE", vector)
L2Distance(vector) == DistanceBase("VEC_L2_DISTANCE", vector)
MaxInnerProduct(vector) == DistanceBase("VEC_COSINE_DISTANCE", vector)
CosineDistance(vector) == DistanceBase("VEC_NEGATIVE_INNER_PRODUCT", vector)
django_distance(metric, vector) ==
    IF metric = "l1" THEN L1Distance(vector)
    ELSE IF metric = "l2" THEN L2Distance(vector)
    ELSE IF metric = "cosine" THEN CosineDistance(vector)
    ELSE MaxInnerProduct(vector)

\* the helper of the adapter named after the metric
distance_helper(adapter, metric, vector) ==
    IF adapter = "sqlalchemy" THEN comparator_factory(metric, vector)
    ELSE IF adapter = "peewee" THEN peewee_distance(metric, vector)
    ELSE django_distance(metric, vector)

DistanceVectors == AdaptorVectors \cup {PyList(<<4>>), PyList(<<-16, 8>>)}

InitDistance ==
    /\ value \in DistanceVectors
    /\ dim = None
    /\ wire = NotStarted
    /\ decoded = NotStarted
    /\ InitClientIdle
    /\ InitSchemaIdle

\* column.l2_distance(value) and the like
DistanceHelper(adapter, metric) ==
    /\ call = NoCall
    /\ call' = [name |-> "distance", adapter |-> adapter, metric |-> metric,
                emitted |-> distance_helper(adapter, metric, value)]
    /\ UNCHANGED <<table, filters, filter_by, results, stmts>>
    /\ UNCHANGED codecVars
    /\ UNCHANGED schemaVars

\* distance_metric.to_sql_func()
ToSqlFunc(distance_metric) ==
    /\ call = NoCall
    /\ call' = [name |-> "to_sql_func", adapter |-> "constants",
                metric |-> IF distance_metric = "L2" THEN "l2" ELSE "cosine",
                emitted |-> FunctionCall(to_sql_func(distance_metric),
                                         encode_vector(value, None))]
    /\ UNCHANGED <<table, filters, filter_by, results, stmts>>
    /\ UNCHANGED codecVars
    /\ UNCHANGED schemaVars

NextDistance ==
    \/ \E adapter \in Adapters, metric \in Metrics : DistanceHelper(adapter, metric)
    \/ \E distance_metric \in DistanceMetric : ToSqlFunc(distance_metric)

SpecDistance == InitDistance /\ [][NextDistance]_vars

(***************************************************************************)
(* The schema specification: the DDL constructs of sqlalchemy/ddl.py act   *)
(* on one table.  VectorIndex.create runs                                  *)
(* TiDBSchemaGenerator.visit_vector_index; a TiFlashReplica is             *)
(* constructed, created and dropped.  The database sets as many TiFlash    *)
(* replicas as it has TiFlash nodes and refuses more.                      *)
(***************************************************************************)
\* the table: info["has_tiflash_replica"] of the Table object, and in the
\* database the number of its replicas, the TiFlash nodes and its indexes
Schema(has_tiflash_replica, replicas, nodes, indexes) ==
    [t |-> "schema", has_tiflash_replica |-> has_tiflash_replica,
     replicas |-> replicas, nodes |-> nodes, indexes |-> indexes]

\* a TiFlashReplica object
TiFlashReplicaObject(replica_num) == [t |-> "replica", replica_num |-> replica_num]

\* TiFlashReplica.__init__: the flag of the table is set
TiFlashReplica(schema, num) ==
    [replica |-> TiFlashReplicaObject(num),
     schema |-> [schema EXCEPT !.has_tiflash_replica = TRUE]]

\* ALTER TABLE ... SET TIFLASH REPLICA new_num as the database runs it
AlterTiFlashReplica(schema, new_num) ==
    IF new_num > schema.nodes
    THEN [raised |-> TRUE, schema |-> schema]
    ELSE [raised |-> FALSE, schema |-> [schema EXCEPT !.replicas = new_num]]

\* CREATE VECTOR INDEX as the database runs it
CreateVectorIndexStatement(schema, index) ==
    IF index \in schema.indexes \/ schema.replicas = 0
    THEN [raised |-> TRUE, schema |-> schema]
    ELSE [raised |-> FALSE, schema |-> [schema EXCEPT !.indexes = @ \cup {index}]]

\* TiDBSchemaGenerator.visit_vector_index: whether it raised, the statements
\* issued, the table afterwards, and the replicas the table had when the
\* last statement was issued
visit_vector_index(schema, index, checkfirst) ==
    IF checkfirst /\ index \in schema.indexes
    THEN [raised |-> FALSE, sent |-> <<>>, schema |-> schema, replicas |-> schema.replicas]
    ELSE IF ~schema.has_tiflash_replica
    THEN LET constructed == TiFlashReplica(schema, 1).schema
             altered == AlterTiFlashReplica(constructed, 1)
             created == CreateVectorIndexStatement(altered.schema, index)
         IN  IF altered.raised
             THEN [raised |-> TRUE, sent |-> <<"set tiflash replica">>,
                   schema |-> altered.schema, replicas |-> altered.schema.replicas]
             ELSE [raised |-> created.raised,
                   sent |-> <<"set tiflash replica", "create vector index">>,
                   schema |-> created.schema, replicas |-> altered.schema.replicas]
    ELSE LET created == CreateVectorIndexStatement(schema, index)
         IN  [raised |-> created.raised, sent |-> <<"create vector index">>,
              schema |-> created.schema, replicas |-> schema.replicas]

\* TiDBSchemaGenerator.visit_tiflash_replica
generator_visit_tiflash_replica(schema, replica) ==
    AlterTiFlashReplica(schema, replica.replica_num)

\* TiDBSchemaDropper.visit_tiflash_replica: the statement, then the del of
\* the flag, a KeyError where the flag is not there
dropper_visit_tiflash_replica(schema, replica) ==
    LET altered == AlterTiFlashReplica(schema, 0)
    IN  IF altered.raised THEN altered
        ELSE IF ~altered.schema.has_tiflash_replica
        THEN [raised |-> TRUE, schema |-> altered.schema]
        ELSE [raised |-> FALSE,
              schema |-> [altered.schema EXCEPT !.has_tiflash_replica = FALSE]]

\* the TiFlash nodes a cluster has, and the replica numbers asked for
TiFlashNodes == {0, 1, 2}

InitSchema ==
    /\ InitCodecIdle
    /\ table = {} /\ filters = None /\ filter_by = NoClause
    /\ results = <<>> /\ stmts = <<>>
    /\ call = [name |-> "init", made |-> 0]
    /\ db \in {Schema(FALSE, 0, nodes, {}) : nodes \in TiFlashNodes}
    /\ client = NotStarted
    /\ column = NotStarted

\* VectorIndex(name, ...).create(bind, checkfirst)
VectorIndex_create(index, checkfirst) ==
    /\ call.made < MaxCalls + 1
    /\ LET done == visit_vector_index(db, index, checkfirst)
       IN  /\ db' = done.schema
           /\ stmts' = done.sent
           /\ call' = [name |-> "VectorIndex.create", made |-> call.made + 1,
                       raised |-> done.raised, flag |-> db.has_tiflash_replica,
                       replicas |-> done.replicas]
    /\ UNCHANGED <<client, column>>
    /\ UNCHANGED <<table, filters, filter_by, results>>
    /\ UNCHANGED codecVars

\* replica = TiFlashReplica(table, num)
TiFlashReplica_new(num) ==
    /\ call.made < MaxCalls + 1
    /\ client = NotStarted
    /\ LET done == TiFlashReplica(db, num)
       IN  /\ db' = done.schema
           /\ client' = done.replica
    /\ stmts' = <<>>
    /\ call' = [name |-> "TiFlashReplica", made |-> call.made + 1]
    /\ UNCHANGED <<column, table, filters, filter_by, results>>
    /\ UNCHANGED codecVars

\* replica.create(bind)
TiFlashReplica_create ==
    /\ call.made < MaxCalls + 1
    /\ client.t = "replica"
    /\ LET done == generator_visit_tiflash_replica(db, client)
       IN  /\ db' = done.schema
           /\ call' = [name |-> "TiFlashReplica.create", made |-> call.made + 1,
                       raised |-> done.raised]
    /\ stmts' = <<"set tiflash replica">>
    /\ UNCHANGED <<client, column, table, filters, filter_by, results>>
    /\ UNCHANGED codecVars

\* replica.drop(bind)
TiFlashReplica_drop ==
    /\ call.made < MaxCalls + 1
    /\ client.t = "replica"
    /\ LET done == dropper_visit_tiflash_replica(db, client)
       IN  /\ db' = done.schema
           /\ client' = IF done.raised THEN client ELSE TiFlashReplicaObject(0)
           /\ call' = [name |-> "TiFlashReplica.drop", made |-> call.made + 1,
                       raised |-> done.raised]
    /\ stmts' = <<"set tiflash replica">>
    /\ UNCHANGED <<column, table, filters, filter_by, results>>
    /\ UNCHANGED codecVars

NextSchema ==
    \/ \E index \in {"idx_l2", "idx_cos"}, checkfirst \in BOOLEAN :
          VectorIndex_create(index, checkfirst)
    \/ \E num \in TiFlashNodes : TiFlashReplica_new(num)
    \/ TiFlashReplica_create
    \/ TiFlashReplica_drop

SpecSchema == InitSchema /\ [][NextSchema]_vars

(***************************************************************************)
(* The construction of a TiDBVectorClient over a database that may hold    *)
(* the table already, and insert.  Here a row keeps its whole embedding.   *)
(***************************************************************************)
NoDistance == "none"
\* class DistanceStrategy
DistanceStrategy == {"l2", "cosine"}

\* extract_info_from_column_definition on the embedding column of the table
get_embedding_column_definition(table_def) ==
    IF table_def.t = "table"
    THEN [dim |-> table_def.dim, distance |-> table_def.distance]
    ELSE [dim |-> None, distance |-> NoDistance]

\* _check_table_compatibility without the comparison of the dimensions
check_table_compatibility_any_dim(distance_strategy, vector_dimension, drop_existing_table, table_def) ==
    LET actual == get_embedding_column_definition(table_def)
        ok(vd, ds) == [raised |-> FALSE, err |-> "", vd |-> vd, ds |-> ds]
        failed(err) == [raised |-> TRUE, err |-> err, vd |-> vector_dimension,
                        ds |-> distance_strategy]
    IN  IF drop_existing_table THEN ok(vector_dimension, distance_strategy)
        ELSE IF actual.distance # NoDistance /\ distance_strategy # NoDistance
                /\ actual.distance # distance_strategy
        THEN failed("EmbeddingColumnMismatchError")
        ELSE ok(vector_dimension, distance_strategy)

\* _check_table_compatibility: what self._vector_dimension and
\* self._distance_strategy are afterwards, or the error raised
_check_table_compatibility(distance_strategy, vector_dimension, drop_existing_table, table_def) ==
    LET actual == get_embedding_column_definition(table_def)
        ok(vd, ds) == [raised |-> FALSE, err |-> "", vd |-> vd, ds |-> ds]
        failed(err) == [raised |-> TRUE, err |-> err, vd |-> vector_dimension,
                        ds |-> distance_strategy]
        vd == IF actual.dim # None /\ vector_dimension = None THEN actual.dim
              ELSE vector_dimension
    IN  IF drop_existing_table THEN ok(vector_dimension, distance_strategy)
        ELSE IF actual.dim # None /\ vector_dimension # None /\ actual.dim # vector_dimension
        THEN failed("EmbeddingColumnMismatchError")
        ELSE IF actual.distance = NoDistance THEN ok(vd, distance_strategy)
        ELSE IF distance_strategy = NoDistance
        THEN IF actual.distance \in DistanceStrategy THEN ok(vd, actual.distance)
             ELSE failed("ValueError")
        ELSE IF actual.distance # distance_strategy
        THEN failed("EmbeddingColumnMismatchError")
        ELSE ok(vd, distance_strategy)

\* EmbeddingColumnMismatchError is a ValueError
ValueErrors == {"ValueError", "EmbeddingColumnMismatchError"}

\* the property distance_strategy taking every value for a strategy
distance_strategy_is_any(ds) == TRUE

\* the property distance_strategy: the distance function, or the error
distance_strategy_is_valid(ds) == ds \in DistanceStrategy \/ ds = NoDistance

\* TiDBVectorClient.__init__: the client, the table definition, the rows
\* and the statements sent
TiDBVectorClient(distance_strategy, vector_dimension, drop_existing_table, table_def, rows) ==
    LET checked == _check_table_compatibility(distance_strategy, vector_dimension,
                                              drop_existing_table, table_def)
        embedding == VectorType(vector_dimension)
        unchanged(err) == [client |-> RaisedError(err), db |-> table_def,
                           rows |-> rows, sent |-> <<>>]
        dropped == drop_existing_table /\ table_def.t = "table"
        created == drop_existing_table \/ table_def.t # "table"
    IN  IF checked.raised THEN unchanged(checked.err)
        ELSE IF embedding.t = "raised" THEN unchanged("ValueError")
        ELSE IF ~distance_strategy_is_valid(checked.ds) THEN unchanged("ValueError")
        ELSE [client |-> Client(checked.vd, checked.ds, vector_dimension),
              db |-> IF created THEN TableDef(vector_dimension, distance_strategy, {})
                     ELSE table_def,
              rows |-> IF created THEN {} ELSE rows,
              sent |-> (IF dropped THEN <<"drop table">> ELSE <<>>)
                          \o (IF created THEN <<"create table">> ELSE <<>>)]

\* a document of a batch
Doc(id, embedding) == [id |-> id, emb |-> embedding, meta |-> Meta(1, 1)]

\* the database takes the row: its id is new and its embedding has the
\* dimension of the column
Accepts(table_def, rows, doc) ==
    /\ \A r \in rows : r.id # doc.id
    /\ table_def.dim = None \/ Len(doc.emb) = table_def.dim.x

\* the rows of the table after the documents from the i-th on were flushed
\* in order, and whether one failed: in the bind processor of the embedding
\* column, or in the database
RECURSIVE Flush(_, _, _, _, _)
Flush(model_dim, table_def, rows, batch, i) ==
    IF i > Len(batch) THEN [failed |-> FALSE, rows |-> rows]
    ELSE IF encode_vector(PyList(batch[i].emb), model_dim).t = "raised"
            \/ ~Accepts(table_def, rows, batch[i])
    THEN [failed |-> TRUE, rows |-> rows]
    ELSE Flush(model_dim, table_def, rows \cup {batch[i]}, batch, i + 1)

\* what the session leaves in the table, each row being committed by itself
commit_each_row(flushed, before) == flushed.rows

\* what the session leaves in the table: all rows of the batch, or, the
\* transaction being rolled back, the rows before the call
commit_or_rollback(flushed, before) == IF flushed.failed THEN before ELSE flushed.rows

ExistingTables ==
    {NoTable} \cup {TableDef(d, ds, {}) :
                      d \in {None, Sc(1), Sc(2)}, ds \in {NoDistance, "l2", "cosine"}}
ExistingRows(table_def) ==
    IF table_def.t # "table" THEN {{}}
    ELSE {{}, {Doc(1, IF table_def.dim = Sc(2) THEN <<3, 4>> ELSE <<3>>)}}

DistanceArgs == {NoDistance, "l2", "cosine", "inner_product"}
DimensionArgs == {None, Sc(0), Sc(1), Sc(2)}

Docs == {Doc(id, e) : id \in 1..2, e \in {<<5>>, <<5, 6>>}}
Batches == SeqsUpTo(Docs, MaxBatch) \ {<<>>}

InitClient ==
    /\ db \in ExistingTables
    /\ table \in ExistingRows(db)
    /\ client = NotStarted
    /\ column = NotStarted
    /\ filters = None
    /\ call = NoCall
    /\ filter_by = NoClause
    /\ results = <<>>
    /\ stmts = <<>>
    /\ InitCodecIdle

New(distance_strategy, vector_dimension, drop_existing_table) ==
    /\ client = NotStarted
    /\ LET made == TiDBVectorClient(distance_strategy, vector_dimension,
                                    drop_existing_table, db, table)
       IN  /\ client' = made.client
           /\ db' = made.db
           /\ table' = made.rows
           /\ stmts' = made.sent
    /\ call' = [name |-> "new", distance_strategy |-> distance_strategy,
                vector_dimension |-> vector_dimension,
                drop_existing_table |-> drop_existing_table]
    /\ UNCHANGED <<filters, filter_by, results, column>>
    /\ UNCHANGED codecVars

Insert(batch) ==
    /\ client.t = "client"
    /\ call.name = "new"
    /\ LET flushed == Flush(client.model_dim, db, table, batch, 1)
       IN  /\ table' = commit_or_rollback(flushed, table)
           /\ call' = [name |-> "insert", batch |-> batch, raised |-> flushed.failed]
           /\ stmts' = IF flushed.failed THEN <<"rollback">> ELSE <<"insert", "commit">>
    /\ UNCHANGED <<filters, filter_by, results>>
    /\ UNCHANGED schemaVars
    /\ UNCHANGED codecVars

NextClient ==
    \/ \E ds \in DistanceArgs, vd \in DimensionArgs, drop \in BOOLEAN : New(ds, vd, drop)
    \/ \E batch \in Batches : Insert(batch)

SpecClient == InitClient /\ [][NextClient]_vars

(***************************************************************************)
(* The insert-arguments specification: TiDBVectorClient.insert (and        *)
(* VectorStore.insert, which reads the same) is handed lists of texts,     *)
(* embeddings, metadatas and ids of any lengths.  The embedding column has *)
(* no fixed dimension here.                                                *)
(***************************************************************************)
Shortest(lens) == CHOOSE n \in lens : \A m \in lens : n <= m

\* str(uuid.uuid4()) for the i-th text: an id no caller passes
uuid4(i) == 100 + i

\* ids as insert uses them: given, or one generated for every text
ids_or_generated(texts, ids) ==
    IF ids = None THEN [i \in 1..Len(texts) |-> uuid4(i)] ELSE ids.l

\* metadatas as insert uses them: given, or an empty dict for every text
metadatas_or_empty(texts, metadatas) ==
    IF metadatas = None \/ Len(metadatas.l) = 0
    THEN [i \in 1..Len(texts) |-> "{}"] ELSE metadatas.l

\* zip(texts, metadatas, embeddings, ids): as many tuples as the shortest
\* argument has elements
zip(texts, metadatas, embeddings, ids) ==
    [i \in 1..Shortest({Len(texts), Len(metadatas), Len(embeddings), Len(ids)}) |->
        [id |-> ids[i], embedding |-> embeddings[i], document |-> texts[i],
         meta |-> metadatas[i]]]

\* insert: whether it raised, the ids it returns, and the rows of the table
\* afterwards; an id that is in the table or twice in the batch makes the
\* commit fail
insert(texts, embeddings, metadatas, ids, rows) ==
    LET used_ids == ids_or_generated(texts, ids)
        docs == zip(texts, metadatas_or_empty(texts, metadatas), embeddings, used_ids)
        duplicate == \/ \E i \in 1..Len(docs) : \E r \in rows : r.id = docs[i].id
                     \/ \E i, j \in 1..Len(docs) : i # j /\ docs[i].id = docs[j].id
    IN  IF duplicate
        THEN [raised |-> TRUE, returned |-> <<>>, rows |-> rows]
        ELSE [raised |-> FALSE, returned |-> used_ids,
              rows |-> rows \cup {docs[i] : i \in 1..Len(docs)}]

TextLists == {<<>>, <<"foo">>, <<"foo", "bar">>}
EmbeddingLists == {<<>>, <<<<16>>>>, <<<<16>>, <<32>>>>}
MetadataLists == {None, List(<<>>), List(<<"{page: 1}">>), List(<<"{page: 1}", "{page: 2}">>)}
IdLists == {None, List(<<>>), List(<<1>>), List(<<1, 2>>)}

InitInsert ==
    /\ InitCodecIdle
    /\ table = {} /\ filters = None /\ filter_by = NoClause
    /\ results = <<>> /\ stmts = <<>>
    /\ call = [name |-> "init", made |-> 0]
    /\ db = TableDef(None, "l2", {})
    /\ client = Client(None, "l2", None)
    /\ column = NotStarted

InsertLists(texts, embeddings, metadatas, ids) ==
    /\ call.made < MaxCalls
    /\ LET done == insert(texts, embeddings, metadatas, ids, table)
       IN  /\ table' = done.rows
           /\ call' = [name |-> "insert", made |-> call.made + 1,
                       texts |-> texts, embeddings |-> embeddings,
                       metadatas |-> metadatas, ids |-> ids,
                       raised |-> done.raised, returned |-> done.returned]
           /\ stmts' = IF done.raised THEN <<"rollback">> ELSE <<"insert", "commit">>
    /\ UNCHANGED <<filters, filter_by, results>>
    /\ UNCHANGED schemaVars
    /\ UNCHANGED codecVars

NextInsert ==
    \E texts \in TextLists, embeddings \in EmbeddingLists,
       metadatas \in MetadataLists, ids \in IdLists :
        InsertLists(texts, embeddings, metadatas, ids)

SpecInsert == InitInsert /\ [][NextInsert]_vars

(***************************************************************************)
(* The execute specification: a client runs SQL texts one after another    *)
(* through TiDBVectorClient.execute over a database that holds one table   *)
(* of ids.                                                                 *)
(***************************************************************************)
\* a SQL text and what the database does when it runs it
Sql(text, does, arg) == [text |-> text, does |-> does, arg |-> arg]

\* the database: the ids in the table, and whether the file of a
\* SELECT ... INTO OUTFILE was written
Database(rows, outfile) == [t |-> "database", rows |-> rows, outfile |-> outfile]

\* session.execute(sqlalchemy.text(sql), params) as the database runs the
\* statement: it raises, or gives a result and the state the commit makes
\* durable.  A statement is atomic: one that fails changes nothing.
Ran(returns_rows, rows, rowcount, after) ==
    [raised |-> FALSE, returns_rows |-> returns_rows, rows |-> rows,
     rowcount |-> rowcount, after |-> after]
Message(text) == [t |-> "message", text |-> text]
Refused(error) == [raised |-> TRUE, error |-> Message(error)]
session_execute(sql, data) ==
    IF sql.does = "select" THEN Ran(TRUE, data.rows, -1, data)
    ELSE IF sql.does = "show" THEN Ran(TRUE, {0}, 1, data)
    ELSE IF sql.does = "select missing" THEN Refused("Table doesn't exist")
    ELSE IF sql.does = "insert"
    THEN IF sql.arg \cap data.rows # {}
         THEN Refused("Duplicate entry")
         ELSE Ran(FALSE, {}, Cardinality(sql.arg),
                  [data EXCEPT !.rows = data.rows \cup sql.arg])
    ELSE IF sql.does = "delete"
    THEN Ran(FALSE, {}, Cardinality(data.rows), [data EXCEPT !.rows = {}])
    ELSE IF sql.does = "select into outfile"
    THEN IF data.outfile
         THEN Refused("File already exists")
         ELSE Ran(FALSE, {}, Cardinality(data.rows), [data EXCEPT !.outfile = TRUE])
    ELSE Ran(FALSE, {}, 0, data)

startswith(str, prefix) ==
    Len(str) >= Len(prefix) /\ SubSeq(str, 1, Len(prefix)) = prefix

Select == <<"s", "e", "l", "e", "c", "t">>

\* the test of the statement without lower()
is_select_case_sensitive(text) == startswith(strip(text), Select)

\* sql.strip().lower().startswith("select")
is_select(text) == startswith(lower(strip(text)), Select)

\* what execute returns
Success(result) == [success |-> TRUE, result |-> result, error |-> None]
Failure(error) == [success |-> FALSE, result |-> None, error |-> error]
FetchedRows(rows) == [t |-> "rows", rows |-> rows]

\* TiDBVectorClient.execute: the dict it returns and the database
\* afterwards.  An exception of session.execute leaves the block of
\* session.begin(), which rolls back; fetchall() on a result without rows
\* raises after the commit.
execute(sql, data) ==
    LET result == session_execute(sql, data)
    IN  IF result.raised
        THEN [returned |-> Failure(result.error), db |-> data]
        ELSE IF is_select(sql.text)
        THEN IF result.returns_rows
             THEN [returned |-> Success(FetchedRows(result.rows)), db |-> result.after]
             ELSE [returned |-> Failure(Message("This result object does not return rows")),
                   db |-> result.after]
        ELSE [returned |-> Success(Sc(result.rowcount)), db |-> result.after]

SelectUpper == <<"S", "E", "L", "E", "C", "T", " ">>
SelectIndented == <<" ", "s", "e", "l", "e", "c", "t", " ">>
Statements ==
    { Sql(SelectUpper, "select", {}),
      Sql(SelectIndented, "select", {}),
      Sql(SelectUpper, "select missing", {}),
      Sql(SelectUpper, "select into outfile", {}),
      Sql(<<"S", "H", "O", "W", " ">>, "show", {}),
      Sql(<<"I", "N", "S", "E", "R", "T", " ">>, "insert", {1}),
      Sql(<<"I", "N", "S", "E", "R", "T", " ">>, "insert", {2, 1}),
      Sql(<<"D", "E", "L", "E", "T", "E", " ">>, "delete", {}),
      Sql(<<"C", "R", "E", "A", "T", "E", " ">>, "create", {}) }

InitExecute ==
    /\ InitCodecIdle
    /\ table = {} /\ filters = None /\ filter_by = NoClause
    /\ results = <<>> /\ stmts = <<>>
    /\ call = [name |-> "init", made |-> 0]
    /\ db \in {Database(rows, outfile) : rows \in SUBSET {1, 2}, outfile \in BOOLEAN}
    /\ client = Client(Sc(1), "l2", Sc(1))
    /\ column = NotStarted

Execute(sql) ==
    /\ call.made < MaxCalls
    /\ LET done == execute(sql, db)
       IN  /\ call' = [name |-> "execute", made |-> call.made + 1, sql |-> sql,
                       raised |-> FALSE, returned |-> done.returned]
           /\ db' = done.db
    /\ stmts' = <<sql.does>>
    /\ UNCHANGED <<client, column>>
    /\ UNCHANGED <<table, filters, filter_by, results>>
    /\ UNCHANGED codecVars

NextExecute == \E sql \in Statements : Execute(sql)

SpecExecute == InitExecute /\ [][NextExecute]_vars

(***************************************************************************)
(* The column-definition specification: extract_info_from_column_definition*)
(* is applied to the COLUMN_TYPE and COLUMN_COMMENT of a column.           *)
(***************************************************************************)
Leftmost(S) == CHOOSE n \in S : \A m \in S : n <= m

Vector == <<"v", "e", "c", "t", "o", "r">>
DistanceEq == <<"d", "i", "s", "t", "a", "n", "c", "e", "=">>

\* where re.search finds VECTOR, case ignored
vector_starts(str) ==
    {i \in 1..(Len(str) - 5) : lower(SubSeq(str, i, i + 5)) = Vector}

\* group 1 of (?:\((\d+)\))? tried at position p, <<>> where the optional
\* part does not match there
dimension_group(str, p) ==
    LET closes == {j \in (p + 2)..Len(str) :
                     /\ str[p] = "(" /\ str[j] = ")"
                     /\ \A i \in (p + 1)..(j - 1) : IsDigit(str[i])}
    IN  IF closes = {} THEN <<>>
        ELSE SubSeq(str, p + 1, Leftmost(closes) - 1)

\* where re.search finds distance= followed by a character of the token
Stops == {",", ")"}
distance_starts(str) ==
    {i \in 1..(Len(str) - 9) :
        SubSeq(str, i, i + 8) = DistanceEq /\ str[i + 9] \notin Stops}

\* group 1 of distance=([^,\)]+) for the match at position i
distance_group(str, i) ==
    LET stops == {j \in (i + 9)..Len(str) : str[j] \in Stops}
    IN  SubSeq(str, i + 9, IF stops = {} THEN Len(str) ELSE Leftmost(stops) - 1)

\* extract_info_from_column_definition(column_type, column_comment)
extract_info_from_column_definition(column_type, column_comment) ==
    LET dimension_match == vector_starts(column_type)
        group == IF dimension_match = {} THEN <<>>
                 ELSE dimension_group(column_type, Leftmost(dimension_match) + 6)
        distance_match == distance_starts(column_comment)
    IN  [dimension |-> IF dimension_match # {} /\ group # <<>>
                       THEN Sc(NatVal(group)) ELSE None,
         distance |-> IF distance_match # {}
                      THEN Str(distance_group(column_comment, Leftmost(distance_match)))
                      ELSE None]

\* the column types and comments
VECTOR == <<"V", "E", "C", "T", "O", "R">>
FLOAT == <<"<", "F", "L", "O", "A", "T", ">">>
Hnsw(inner) == <<"h", "n", "s", "w", "(">> \o inner \o <<")">>
ColumnTypes ==
    { VECTOR, VECTOR \o <<"(", "3", ")">>, Vector \o <<"(", "1", "2", ")">>,
      VECTOR \o FLOAT, VECTOR \o FLOAT \o <<"(", "3", ")">>,
      VECTOR \o <<"(", "3">>, VECTOR \o <<"(", ")">>, <<"I", "N", "T">> }
ColumnComments ==
    { <<>>, <<"t", "e", "x", "t">>,
      DistanceEq \o <<"l", "2">>,
      Hnsw(DistanceEq \o <<"c", "o", "s">>),
      <<"t", ",", " ">> \o Hnsw(DistanceEq \o <<"l", "2">>),
      DistanceEq \o <<"l", "2", ",", "m", "=", "8">>,
      DistanceEq,
      DistanceEq \o <<",">> \o DistanceEq \o <<"l", "2">> }

ColumnDefinition(column_type, column_comment) ==
    [t |-> "column definition", COLUMN_TYPE |-> column_type,
     COLUMN_COMMENT |-> column_comment]

InitExtract ==
    /\ InitCodecIdle
    /\ InitClientIdle
    /\ db \in {ColumnDefinition(column_type, column_comment) :
                column_type \in ColumnTypes, column_comment \in ColumnComments}
    /\ client = NotStarted
    /\ column = NotStarted

Extract ==
    /\ call = NoCall
    /\ LET info == extract_info_from_column_definition(db.COLUMN_TYPE, db.COLUMN_COMMENT)
       IN  call' = [name |-> "extract_info_from_column_definition",
                    dimension |-> info.dimension, distance |-> info.distance]
    /\ UNCHANGED schemaVars
    /\ UNCHANGED <<table, filters, filter_by, results, stmts>>
    /\ UNCHANGED codecVars

NextExtract == Extract

SpecExtract == InitExtract /\ [][NextExtract]_vars

(***************************************************************************)
(* The store specification: one process constructs VectorStore instances   *)
(* (integrations/vectorstore.py) and inserts into, queries and drops them. *)
(***************************************************************************)
TableNames == {"first", "second"}

\* the class VectorTableModel made for a table name
VectorTableModel(table_name) == [t |-> "model", __tablename__ |-> table_name]

\* the process: the module global _classes and the stores constructed
Process(_classes, stores, made) ==
    [t |-> "process", _classes |-> _classes, stores |-> stores, made |-> made]

\* a VectorStore instance: the table_name it was given and self._table_model
Store(table_name, _table_model) ==
    [table_name |-> table_name, _table_model |-> _table_model]

\* the tables of the database: for each name whether it exists, and its ids
Tables(held) == [t |-> "tables", held |-> held]
Absent == [exists |-> FALSE, rows |-> {}]
Present(rows) == [exists |-> TRUE, rows |-> rows]

\* _create_vector_model(table_name): the class returned and _classes
\* afterwards
_create_vector_model(table_name, _classes) ==
    IF _classes # None
    THEN [model |-> _classes, _classes |-> _classes]
    ELSE [model |-> VectorTableModel(table_name),
          _classes |-> VectorTableModel(table_name)]

\* the tables Base.metadata holds: those of the classes defined on Base
metadata_tables(_classes) ==
    IF _classes = None THEN {} ELSE {_classes.__tablename__}

\* Base.metadata.drop_all and Base.metadata.create_all
drop_all(_classes, held) ==
    [name \in TableNames |->
        IF name \in metadata_tables(_classes) THEN Absent ELSE held[name]]
create_all(_classes, held) ==
    [name \in TableNames |->
        IF name \in metadata_tables(_classes) /\ ~held[name].exists
        THEN Present({}) ELSE held[name]]

InitStore ==
    /\ InitCodecIdle
    /\ InitClientIdle
    /\ db \in {Tables(held) : held \in [TableNames -> {Absent, Present({1})}]}
    /\ client = Process(None, <<>>, 0)
    /\ column = NotStarted

\* VectorStore(connection_string, table_name, pre_delete_table=...)
NewVectorStore(table_name, pre_delete_table) ==
    /\ Len(client.stores) < MaxStores
    /\ LET created == _create_vector_model(table_name, client._classes)
           dropped == IF pre_delete_table THEN drop_all(created._classes, db.held)
                      ELSE db.held
       IN  /\ client' = Process(created._classes,
                                Append(client.stores, Store(table_name, created.model)),
                                client.made)
           /\ db' = Tables(create_all(created._classes, dropped))
           /\ call' = [name |-> "VectorStore", store |-> Len(client.stores) + 1,
                       on |-> metadata_tables(created._classes)]
           /\ stmts' = (IF pre_delete_table THEN <<"drop table">> ELSE <<>>)
                           \o <<"create table">>
    /\ UNCHANGED <<table, filters, filter_by, results, column>>
    /\ UNCHANGED codecVars

\* store.insert(texts, embeddings, ids=[id])
StoreInsert(i, id) ==
    /\ i \in 1..Len(client.stores)
    /\ client.made < MaxCalls
    /\ LET name == client.stores[i]._table_model.__tablename__
       IN  /\ db.held[name].exists /\ id \notin db.held[name].rows
           /\ db' = Tables([db.held EXCEPT ![name] = Present(@.rows \cup {id})])
           /\ call' = [name |-> "insert", store |-> i, on |-> {name}]
    /\ client' = [client EXCEPT !.made = @ + 1]
    /\ stmts' = <<"insert">>
    /\ UNCHANGED <<table, filters, filter_by, results, column>>
    /\ UNCHANGED codecVars

\* store.query(query_vector, k)
StoreQuery(i) ==
    /\ i \in 1..Len(client.stores)
    /\ client.made < MaxCalls
    /\ LET name == client.stores[i]._table_model.__tablename__
       IN  /\ db.held[name].exists
           /\ table' = db.held[name].rows
           /\ call' = [name |-> "query", store |-> i, on |-> {name}]
    /\ client' = [client EXCEPT !.made = @ + 1]
    /\ stmts' = <<"select">>
    /\ UNCHANGED <<db, filters, filter_by, results, column>>
    /\ UNCHANGED codecVars

\* store.drop_table()
StoreDropTable(i) ==
    /\ i \in 1..Len(client.stores)
    /\ client.made < MaxCalls
    /\ db' = Tables(drop_all(client._classes, db.held))
    /\ call' = [name |-> "drop_table", store |-> i,
                on |-> metadata_tables(client._classes)]
    /\ client' = [client EXCEPT !.made = @ + 1]
    /\ stmts' = <<"drop table">>
    /\ UNCHANGED <<table, filters, filter_by, results, column>>
    /\ UNCHANGED codecVars

NextStore ==
    \/ \E table_name \in TableNames, pre_delete_table \in BOOLEAN :
          NewVectorStore(table_name, pre_delete_table)
    \/ \E i \in 1..MaxStores, id \in {1, 2} : StoreInsert(i, id)
    \/ \E i \in 1..MaxStores : StoreQuery(i)
    \/ \E i \in 1..MaxStores : StoreDropTable(i)

SpecStore == InitStore /\ [][NextStore]_vars

(***************************************************************************)
(* The claims about the filter compiler.                                   *)
(***************************************************************************)
\* the last call compiled its filter
Compiled == call # NoCall /\ filter_by.t \notin {"raised", "none"}

\* the rows the filter with the one entry e selects
SelectedByEntry(e, r) == Selected(_build_filter_clause(Dict(<<e>>)), r)

\* C1: the predicate compiled from a filter selects a row iff the row
\* satisfies the clause of every key of the filter, $and / $or keys next to
\* field keys included.
C1_AndOfAllKeys ==
    (Compiled /\ filters.t = "dict") =>
        \A r \in Rows :
            Selected(filter_by, r) <=>
                \A i \in 1..Len(filters.d) : SelectedByEntry(filters.d[i], r)

\* a filter {"$or": [...], <field>: ...} was compiled, and some row satisfies
\* the $or alone but not the whole filter
C1_Witness ==
    /\ Compiled
    /\ filters.t = "dict"
    /\ Len(filters.d) = 2
    /\ lower(filters.d[1].k) = kOr
    /\ filters.d[2].k = kPage
    /\ \E j \in 1..Len(filters.d[1].v.l) : IsDict(filters.d[1].v.l[j])
    /\ \E r \in Rows : SelectedByEntry(filters.d[1], r) /\ ~SelectedByEntry(filters.d[2], r)
    /\ \E r \in Rows : SelectedByEntry(filters.d[2], r) /\ ~SelectedByEntry(filters.d[1], r)
    /\ \E r \in Rows : Selected(filter_by, r)

\* the operator tokens the claim C2 lists
OperatorTokens ==
    { <<"$","i","n">>, <<"$","n","i","n">>, <<"$","g","t">>, <<"$","g","t","e">>,
      <<"$","l","t">>, <<"$","l","t","e">>, <<"$","e","q">>, <<"$","n","e">> }

IsLogicKey(k) == lower(k) \in {kAnd, kOr}

\* a key of the filter, or of a sub-specification under $and / $or at any
\* depth, is a bare operator token
RECURSIVE HasBareOperator(_)
HasBareOperator(f) ==
    /\ f.t = "dict"
    /\ \E i \in 1..Len(f.d) :
          \/ lower(f.d[i].k) \in OperatorTokens
          \/ /\ IsLogicKey(f.d[i].k)
             /\ \E j \in 1..Len(f.d[i].v.l) : HasBareOperator(f.d[i].v.l[j])

\* C2: compiling raises exactly when a key of the filter, or of a
\* sub-specification under $and / $or at any depth, is a bare operator token
\* in any letter case; then no predicate is returned and the query or delete
\* sends no statement and changes no row.
C2_BareOperatorRaises ==
    call # NoCall =>
        /\ (filter_by.t = "raised") <=> HasBareOperator(filters)
        /\ filter_by.t = "raised" => (stmts = <<>> /\ results = <<>> /\ table = Rows)

\* a call raised for a bare operator token that is no key of the filter
\* itself but of a nested sub-specification
C2_Witness ==
    /\ call # NoCall
    /\ filter_by.t = "raised"
    /\ stmts = <<>>
    /\ \A i \in 1..Len(filters.d) : lower(filters.d[i].k) \notin OperatorTokens

\* the entry is a field key with an operator object without recognised key
IsUnsupported(e) ==
    /\ ~IsLogicKey(e.k)
    /\ lower(e.k) \notin OperatorTokens
    /\ IsDict(e.v)
    /\ \A i \in 1..Len(e.v.d) : lower(e.v.d[i].k) \notin OperatorTokens

\* the filter without its field keys that have an operator object without
\* recognised key, at every depth
RECURSIVE WithoutUnsupported(_)
WithoutUnsupported(v) ==
    IF v.t = "dict"
    THEN LET kept == SelectSeq(v.d, LAMBDA e : ~IsUnsupported(e))
         IN  Dict([i \in 1..Len(kept) |->
                     IF IsLogicKey(kept[i].k)
                     THEN Entry(kept[i].k,
                                List([j \in 1..Len(kept[i].v.l) |-> WithoutUnsupported(kept[i].v.l[j])]))
                     ELSE kept[i]])
    ELSE v

\* C3: a field key with an operator object that holds no recognised
\* operator does not make the compilation raise and contributes no clause:
\* the predicate selects exactly the rows the filter without such keys
\* selects.
C3_FailOpen ==
    (call # NoCall /\ WithoutUnsupported(filters) # filters) =>
        LET without == _build_filter_clause(WithoutUnsupported(filters))
        IN  /\ (filter_by.t = "raised") <=> (without.t = "raised")
            /\ filter_by.t # "raised" =>
                  \A r \in Rows : Selected(filter_by, r) <=> Selected(without, r)

\* a filter with an unsupported operator object next to another field was
\* compiled, and it selects some rows but not all
C3_Witness ==
    /\ Compiled
    /\ filters.t = "dict"
    /\ \E i \in 1..Len(filters.d) : IsUnsupported(filters.d[i])
    /\ \E r \in Rows : Selected(filter_by, r)
    /\ \E r \in Rows : ~Selected(filter_by, r)

\* the operator object of a filter {page: {...}}
IsOpFilter == filters.t = "dict" /\ Len(filters.d) = 1 /\ IsDict(filters.d[1].v)
OpObject == filters.d[1].v.d

\* the priority order the claim C4 gives
Priority ==
    << <<"$","i","n">>, <<"$","n","i","n">>, <<"$","g","t">>, <<"$","g","t","e">>,
       <<"$","l","t">>, <<"$","l","t","e">>, <<"$","n","e">>, <<"$","e","q">> >>
PriorityName == <<"in", "not_in", "gt", "ge", "lt", "le", "ne", "eq">>

Spelled(o, OP) == {i \in 1..Len(o) : lower(o[i].k) = OP}
Recognised(o) == {n \in 1..Len(Priority) : Spelled(o, Priority[n]) # {}}
First(o) == CHOOSE n \in Recognised(o) : \A m \in Recognised(o) : n <= m
Max(S) == CHOOSE n \in S : \A m \in S : m <= n

\* the operator object with its entries in the order p
Reordered(o, p) == [i \in 1..Len(o) |-> o[p[i]]]
PageFilter(o) == Dict(<<Entry(kPage, Dict(o))>>)

\* C4 as claimed: of several recognised operator keys exactly the first in
\* the priority order is applied, with the value given for it, and the
\* predicate does not depend on the insertion order of the keys.
C4_Original ==
    (Compiled /\ IsOpFilter /\ Recognised(OpObject) # {}) =>
        /\ \E i \in Spelled(OpObject, Priority[First(OpObject)]) :
              filter_by = Cmp(kPage, PriorityName[First(OpObject)], OpObject[i].v)
        /\ \A p \in Permutations(1..Len(OpObject)) :
              _build_filter_clause(PageFilter(Reordered(OpObject, p))) = filter_by

\* C4 as amended: exactly the first recognised operator in the priority
\* order is applied, whatever the letter case and whatever other operators
\* the object holds; the predicate does not depend on the insertion order
\* unless two keys spell the same operator in different letter case, and
\* then the value of the last inserted of them is used.
C4_FirstInPriority ==
    (Compiled /\ IsOpFilter /\ Recognised(OpObject) # {}) =>
        LET OP == Priority[First(OpObject)]
            last == Max(Spelled(OpObject, OP))
        IN  /\ filter_by = Cmp(kPage, PriorityName[First(OpObject)], OpObject[last].v)
            /\ filter_by = _build_filter_clause(PageFilter(<<OpObject[last]>>))
            /\ (\A i, j \in 1..Len(OpObject) :
                    i # j => lower(OpObject[i].k) # lower(OpObject[j].k))
                 => \A p \in Permutations(1..Len(OpObject)) :
                       _build_filter_clause(PageFilter(Reordered(OpObject, p))) = filter_by

HasPage(r) == kPage \in DOMAIN r.meta

\* an object holding $eq (in another letter case) before $in was compiled,
\* and the predicate is that of $in
C4_Witness ==
    /\ Compiled
    /\ IsOpFilter
    /\ Len(OpObject) = 2
    /\ lower(OpObject[1].k) = kEq
    /\ OpObject[1].k # kEq
    /\ OpObject[2] = Entry(kIn, List(<<Sc(2), Sc(3)>>))
    /\ {r \in Rows : Selected(filter_by, r)} =
          {r \in Rows : HasPage(r) /\ r.meta[kPage] \in {2, 3}}

\* what the claim C5 gives as the meaning of the operators
RefHolds(op, x, operand) ==
    CASE op = 1 -> \E i \in 1..Len(operand.l) : operand.l[i].x = x
      [] op = 2 -> ~\E i \in 1..Len(operand.l) : operand.l[i].x = x
      [] op = 3 -> x > operand.x
      [] op = 4 -> x >= operand.x
      [] op = 5 -> x < operand.x
      [] op = 6 -> x <= operand.x
      [] op = 7 -> x # operand.x
      [] op = 8 -> x = operand.x

\* a filter {page: {op: v}} with one recognised operator
IsSingleOp == IsOpFilter /\ Len(OpObject) = 1 /\ Recognised(OpObject) # {}
\* a filter {page: v} with a scalar v
IsScalarFilter == filters.t = "dict" /\ Len(filters.d) = 1 /\ filters.d[1].v.t = "scalar"

\* {page: v} selects the rows {page: {"$eq": v}} selects
ScalarIsEq ==
    \A r \in Rows :
        Selected(filter_by, r) <=>
            Selected(_build_filter_clause(PageFilter(<<Entry(kEq, filters.d[1].v)>>)), r)

DictItems(l) == {j \in 1..Len(l) : IsDict(l[j])}

\* C6 as claimed: a $and key compiles to the conjunction and a $or key to
\* the disjunction of the compiled sub-specifications of its list, whatever
\* these hold; the items that are no dicts are skipped.  (The $or of a list
\* without any dict is the subject of C7.)
C6_AndOrOfSubSpecs ==
    (Compiled /\ filters.t = "dict") =>
        \A i \in 1..Len(filters.d) :
            LET e == filters.d[i]
                sub(j) == _build_filter_clause(e.v.l[j])
            IN  /\ lower(e.k) = kAnd =>
                      \A r \in Rows :
                          SelectedByEntry(e, r) <=>
                              \A j \in DictItems(e.v.l) : Selected(sub(j), r)
                /\ (lower(e.k) = kOr /\ DictItems(e.v.l) # {}) =>
                      \A r \in Rows :
                          SelectedByEntry(e, r) <=>
                              \E j \in DictItems(e.v.l) : Selected(sub(j), r)

\* the filter yields no clause: None, the empty dict, or a single $and or
\* $or whose list holds no dict
ZeroClauses ==
    \/ filters.t = "none"
    \/ /\ filters.t = "dict"
       /\ \/ Len(filters.d) = 0
          \/ /\ Len(filters.d) = 1
             /\ IsLogicKey(filters.d[1].k)
             /\ DictItems(filters.d[1].v.l) = {}

\* C7: a filter that yields no clause compiles, without raising, to a
\* predicate that is true of every row: the query ranks all rows and the
\* delete without ids removes all rows.
C7_ZeroClausesIsTrue ==
    (call # NoCall /\ ZeroClauses) =>
        /\ filter_by.t # "raised"
        /\ \A r \in Rows : Selected(filter_by, r)
        /\ (call.name = "delete" /\ call.ids = None) => table = {}
        /\ (call.name = "query" /\ ~call.post) =>
              (Len(results) = call.k /\ Distance(call.q, results[1]) <= 1)

\* a query with the filter {"$or": [None]} (in some letter case of the key
\* or with another non-dict item) returned the nearest row
C7_Witness ==
    /\ call.name = "query"
    /\ filters.t = "dict"
    /\ Len(filters.d) = 1
    /\ lower(filters.d[1].k) = kOr
    /\ Len(filters.d[1].v.l) >= 1
    /\ DictItems(filters.d[1].v.l) = {}
    /\ Len(results) >= 1

(***************************************************************************)
(* The claims about the vector codec.                                      *)
(***************************************************************************)
IsSequenceValue == value.t = "list" \/ (value.t = "ndarray" /\ value.ndim = 1
                                          /\ IsNumericDType(value.dtype))
Encoded == wire # NotStarted
Decoded == decoded # NotStarted

\* C8: decoding the literal that encoding produced for a vector of one or
\* more numbers gives a float32 array of the same length whose elements are
\* the vector's elements narrowed to float32.
C8_RoundTrip ==
    (Decoded /\ IsSequenceValue /\ Len(value.data) >= 1)
        => /\ decoded.t = "ndarray"
           /\ decoded.ndim = 1
           /\ decoded.dtype = "float32"
           /\ Len(decoded.data) = Len(value.data)
           /\ \A i \in 1..Len(value.data) : decoded.data[i] = Float32(value.data[i])

C8_Witness ==
    /\ value = PyList(<<26, -17, 200>>)
    /\ wire = Str(<<"[", "1", ".", "6", "2", "5", ",", "-", "1", ".", "0", "6", "2", "5", ",",
                    "1", "2", ".", "5", "]">>)
    /\ decoded = NdArray("float32", <<24, -16, 200>>)

\* C9: the empty vector encodes to "[]", and decoding "[]" gives an empty
\* float32 array.
C9_EmptyVector ==
    (IsSequenceValue /\ Len(value.data) = 0)
        => /\ (Encoded /\ wire.t # "raised") => wire = Str(<<"[", "]">>)
           /\ Decoded => decoded = NdArray("float32", <<>>)

\* C10: with a dimension given, encoding raises when the vector's length
\* differs from it and returns the literal when it is equal; with no
\* dimension a vector of any length is encoded.
C10_DimEnforced ==
    (Encoded /\ IsSequenceValue)
        => /\ (dim # None /\ Len(value.data) # dim.x) => wire.t = "raised"
           /\ (dim = None \/ Len(value.data) = dim.x)
                => /\ wire.t = "str"
                   /\ Len(Split(wire.s, ",")) = (IF Len(value.data) = 0 THEN 1 ELSE Len(value.data))
                   /\ wire.s[1] = "[" /\ wire.s[Len(wire.s)] = "]"
                   /\ \A i \in 1..Len(value.data) :
                        LET token == Split(SubSeq(wire.s, 2, Len(wire.s) - 1), ",")[i]
                        IN  ParseFloat(token) = [ok |-> TRUE, n |-> value.data[i]]

C10_Witness ==
    /\ value = PyList(<<16, 32>>)
    /\ dim = Sc(3)
    /\ wire = RaisedError("expected dimensions")

\* the element type of the value is neither integer nor floating-point: an
\* array of another dtype, or a plain sequence holding a boolean, a string
\* or None
NonNumericArray == value.t = "ndarray" /\ value.ndim = 1 /\ ~(value.dtype \in {"int64", "float64"})
NonNumericItems ==
    value.t = "objects" /\ \E i \in 1..Len(value.items) : value.items[i].t # "num"

NumericStrings == { <<"1", ".", "5">>, <<" ", "2", " ">> }
Convertible(item) ==
    item.t \in {"num", "bool"} \/ (item.t = "str" /\ item.s \in NumericStrings)

Bracketed(text) == Len(text) >= 2 /\ text[1] = "[" /\ text[Len(text)] = "]"
NumericTokens == { <<"1", ".", "5">>, <<"1", "2">>, <<"-", "2">>, <<"2">>, <<"5">> }
\* a malformed literal: a text that is not in brackets, or that holds between
\* its brackets a token that is empty or no number ("[]" is the empty vector)
Malformed(text) ==
    \/ ~Bracketed(text)
    \/ /\ text # <<"[", "]">>
       /\ LET tokens == Split(SubSeq(text, 2, Len(text) - 1), ",")
          IN  \E i \in 1..Len(tokens) : tokens[i] \notin NumericTokens

\* C12 as claimed: decoding a malformed literal raises, and no array is
\* returned for it.
C12_MalformedRejected ==
    (Decoded /\ wire.t = "str" /\ Malformed(wire.s)) => decoded.t = "raised"

(***************************************************************************)
(* The claims about the ORM adapters.                                      *)
(***************************************************************************)
OutOfRange(d) == d.t = "scalar" /\ (d.x < 1 \/ d.x > 16000)

\* C13 as claimed: no adapter constructs a vector column with a fixed
\* dimension below 1 or above 16000.
C13_DimLimitsEnforced ==
    (column.t = "column" /\ column.kind = "vector") => ~OutOfRange(column.dim)

\* C14 as claimed: in every adapter, writing a vector whose length differs
\* from the fixed dimension of the column raises in the encode step, and no
\* statement carrying the value is sent.
C14_MismatchFailsBeforeSend ==
    (/\ column.t = "column" /\ column.kind = "vector" /\ column.dim.t = "scalar"
     /\ wire # NotStarted
     /\ value.t # "none" /\ Len(value.data) # column.dim.x)
        => (wire.t = "raised" /\ stmts = <<>>)

\* a column create_vector_index must refuse: a vector column without a fixed
\* dimension, or a column that is no vector column
Unindexable == column.kind # "vector" \/ column.dim = None

\* C20: create_vector_index (SQLAlchemy and Peewee) on a vector column
\* without a fixed dimension, or on a column that is no vector column,
\* raises and sends no statement, and leaves the table as it was; a
\* has_vector_index on the vector column afterwards sends its SHOW INDEX and
\* returns what the table holds, False where no index existed.
C20_NoIndexOnDynamicVector ==
    /\ [][(call = NoCall /\ call'.name = "create_vector_index" /\ Unindexable)
            => (call'.raised /\ stmts' = <<>> /\ db' = db)]_vars
    /\ []((/\ call.name = "has_vector_index"
           /\ call.after.name = "create_vector_index"
           /\ column.kind = "vector" /\ column.dim = None)
            => (call.after.raised /\ ~call.raised /\ call.returned = (db.index # {})))

\* has_vector_index returned False after create_vector_index raised on a
\* Peewee vector field without dimensions
C20_Witness ==
    /\ column = Column("peewee", "vector", None)
    /\ call.name = "has_vector_index"
    /\ call.after = [name |-> "create_vector_index", raised |-> TRUE]
    /\ call.returned = FALSE
    /\ db.index = {}
    /\ stmts = <<"show index">>

(***************************************************************************)
(* The claims about the client: insert, construction, delete and query.    *)
(***************************************************************************)
\* a document insert must refuse: its embedding has not the dimension the
\* client was constructed with, or its id exists in the table
BadDoc(doc) ==
    \/ client.model_dim # None /\ Len(doc.emb) # client.model_dim.x
    \/ \E r \in table : r.id = doc.id

\* C15: insert is all-or-nothing: a batch holding a document of the wrong
\* dimension or of an id that exists in the table makes insert raise, and
\* whenever insert raises the table holds exactly the rows it held before;
\* when it does not raise, the table holds the rows before and the batch.
C15_InsertAllOrNothing ==
    [][(call.name = "new" /\ call'.name = "insert") =>
          /\ (\E i \in 1..Len(call'.batch) : BadDoc(call'.batch[i])) => call'.raised
          /\ call'.raised => table' = table
          /\ ~call'.raised => table' = table \cup {call'.batch[i] : i \in 1..Len(call'.batch)}]_vars

\* a batch of a good document followed by one of the wrong dimension was
\* refused, and the good document is not in the table
C15_Witness ==
    /\ call.name = "insert"
    /\ call.raised
    /\ client.model_dim = Sc(1)
    /\ db.dim = Sc(1)
    /\ Len(call.batch) = 2
    /\ call.batch[1].emb = <<5>>
    /\ call.batch[2].emb = <<5, 6>>
    /\ call.batch[1].id # call.batch[2].id
    /\ \A r \in table : r.id # call.batch[1].id /\ r.id # call.batch[2].id
    /\ stmts = <<"rollback">>

Mismatch == RaisedError("EmbeddingColumnMismatchError")

C17_EveryStrategyConstructs ==
    (/\ call.name = "new"
     /\ call.drop_existing_table
     /\ call.distance_strategy \in {"l2", "cosine", "inner_product"}
     /\ call.vector_dimension \in {None, Sc(1), Sc(2)})
        => client.t = "client"

\* the filter of the call was compiled: it holds no bare operator
FilterCompiled == filter_by.t # "raised" /\ filter_by # NoClause
Satisfies(r) == Selected(_build_filter_clause(filters), r)
InIds(r, ids) == ids.t = "none" \/ \E i \in 1..Len(ids.l) : ids.l[i].x = r.id

\* C18: after delete(ids, filter) the table holds exactly the rows it held
\* before minus those that both are named by ids (ids None: every row) and
\* satisfy the filter (filter None: every row); so ids given as the empty
\* list delete nothing, and delete() with neither removes every row.
C18_DeleteFrame ==
    (call.name = "delete" /\ FilterCompiled) =>
        /\ table = {r \in Rows : ~(InIds(r, call.ids) /\ Satisfies(r))}
        /\ call.ids = List(<<>>) => table = Rows
        /\ (call.ids = None /\ filters = None) => table = {}

\* delete([2, 5, 11], {"page": 1}) removed the row 5 alone: the rows 2 and
\* 11 are named but not of page 1, the other rows of page 1 are not named
C18_Witness ==
    /\ call.name = "delete"
    /\ call.ids = List(<<Sc(2), Sc(5), Sc(11)>>)
    /\ filters = Dict(<<Entry(kPage, Sc(1))>>)
    /\ table = {r \in Rows : r.id # 5}
    /\ \E r \in table : r.id # 5 /\ HasPage(r) /\ r.meta[kPage] = 1

\* C19: without post-filtering, query(v, k, filter) returns min(k, m) rows,
\* m counting the rows that satisfy the filter; every row returned is a row
\* of the table that satisfies the filter, no row is returned twice, the
\* distances do not decrease, and no matching row left out is nearer than a
\* row returned.
C19_PreFilterTopK ==
    (call.name = "query" /\ ~call.post /\ FilterCompiled) =>
        LET matching == {r \in Rows : Satisfies(r)}
            m == Cardinality(matching)
        IN  /\ Len(results) = (IF call.k < m THEN call.k ELSE m)
            /\ \A i \in 1..Len(results) : results[i] \in matching
            /\ \A i, j \in 1..Len(results) : i # j => results[i] # results[j]
            /\ \A i, j \in 1..Len(results) :
                  i < j => Distance(call.q, results[i]) <= Distance(call.q, results[j])
            /\ \A r \in matching \ Range(results) :
                  \A i \in 1..Len(results) :
                      Distance(call.q, results[i]) <= Distance(call.q, r)

\* query(13, k, {"page": 1}) with k the largest: the rows of page 1 nearest
\* to 13 came back, nearest first, and a matching row was left out
C19_Witness ==
    /\ call.name = "query"
    /\ ~call.post
    /\ call.q = 13
    /\ call.k = MaxK
    /\ filters = Dict(<<Entry(kPage, Sc(1))>>)
    /\ Len(results) = MaxK
    /\ results[1].id = 6
    /\ results[2].id = 5
    /\ \E r \in Rows : Satisfies(r) /\ r \notin Range(results)

(***************************************************************************)
(* The claims about the index of a column.                                 *)
(***************************************************************************)
\* the index create_vector_index makes on the column exists
HasCreatedIndex(rows) ==
    \E row \in rows : row.Key_name = index_name(column) /\ row.Index_type = "VECTOR"

DDL == {"set tiflash replica", "add vector index"}

\* C21: on a column of fixed dimension that has the index already,
\* create_vector_index with skip_existing=True returns without raising and
\* sends no DDL statement, whatever the distance metric; with
\* skip_existing=False it raises; in both cases the indexes of the table
\* are what they were, and no call ever takes the index away again.
C21_ExistingIndexKept ==
    /\ [][(/\ call'.name = "create_vector_index" /\ call'.made = call.made + 1
           /\ column.dim # None /\ HasCreatedIndex(db.index))
            => (/\ db'.index = db.index
                /\ call'.skip_existing
                      => (~call'.raised /\ \A i \in 1..Len(stmts') : stmts'[i] \notin DDL)
                /\ ~call'.skip_existing => call'.raised)]_vars
    /\ [][HasCreatedIndex(db.index) => HasCreatedIndex(db'.index)]_vars

\* a second create_vector_index, with skip_existing=True and the other
\* metric, returned normally over the L2 index the first call had made
C21_Witness ==
    /\ call.name = "create_vector_index" /\ call.made = 2
    /\ call.skip_existing /\ call.distance_metric = "COSINE" /\ ~call.raised
    /\ column.dim = Sc(3)
    /\ stmts = <<"show index">>
    /\ db.index = {VectorIndex("VEC_L2_DISTANCE")}

\* C28 as claimed: has_vector_index returns True exactly when a vector
\* index exists on the column.
C28_TrueIffVectorIndex ==
    (call.name = "has_vector_index" /\ ~call.raised)
        => (call.returned <=> \E row \in db.index :
                                 /\ row.Index_type = "VECTOR"
                                 /\ lower(row.Column_name) = lower(column.name))


(***************************************************************************)
(* The claims about execute.                                               *)
(***************************************************************************)
\* the database refuses the statement in the state it is run in
Fails(sql, data) == session_execute(sql, data).raised

\* C22: execute propagates no exception; the dict it returns is either a
\* success with error None and, as result, the rows for a text that starts
\* with "select" (blanks and case ignored) and the count of affected rows
\* for every other text, or a failure with result None and a non-empty
\* message; a statement that fails leaves the database as it was.
C22_ExecuteReports ==
    [][(call'.name = "execute" /\ call'.made = call.made + 1)
        => LET returned == call'.returned
               sql == call'.sql
           IN  /\ ~call'.raised
               /\ \/ /\ returned.success /\ returned.error = None
                     /\ IF startswith(lower(strip(sql.text)), Select)
                        THEN returned.result
                                = FetchedRows(session_execute(sql, db).rows)
                        ELSE returned.result
                                = Sc(session_execute(sql, db).rowcount)
                  \/ /\ ~returned.success /\ returned.result = None
                     /\ returned.error # None /\ returned.error.text # ""
               /\ Fails(sql, db) => (~returned.success /\ db' = db)
               /\ returned.success => db' = session_execute(sql, db).after]_vars

\* a SELECT in capitals returned the rows of the table, after an insert of
\* two ids of which one was there already was reported as a failure
C22_Witness ==
    /\ call.name = "execute" /\ call.made = 2
    /\ call.sql = Sql(SelectUpper, "select", {})
    /\ call.returned = Success(FetchedRows({1}))
    /\ db = Database({1}, FALSE)


(***************************************************************************)
(* The claims about the column definition.                                 *)
(***************************************************************************)
\* the dimension a column type carries: the number in the parentheses it
\* ends with
CarriedDimension(column_type) ==
    LET opens == {i \in 1..(Len(column_type) - 2) :
                    /\ column_type[i] = "("
                    /\ column_type[Len(column_type)] = ")"
                    /\ \A j \in (i + 1)..(Len(column_type) - 1) : IsDigit(column_type[j])}
    IN  IF vector_starts(column_type) = {} \/ opens = {} THEN None
        ELSE Sc(NatVal(SubSeq(column_type, Leftmost(opens) + 1, Len(column_type) - 1)))

\* C23 as claimed: the dimension returned is the integer the column type
\* carries, the form VECTOR<FLOAT>(n) included, and None where it carries
\* none; the distance returned is the token after "distance=" up to the
\* next ',' or ')', and None where the comment has no such token.
C23_ExtractsDimensionAndDistance ==
    call.name = "extract_info_from_column_definition"
        => /\ call.dimension = CarriedDimension(db.COLUMN_TYPE)
           /\ call.distance
                = (IF distance_starts(db.COLUMN_COMMENT) = {} THEN None
                   ELSE Str(distance_group(db.COLUMN_COMMENT,
                                           Leftmost(distance_starts(db.COLUMN_COMMENT)))))

(***************************************************************************)
(* The claims about VectorStore.                                           *)
(***************************************************************************)
\* C24 as claimed: whatever stores were constructed before, a store is
\* created over, inserts into, queries and drops the table named by its own
\* table_name argument, and no other table.
C24_StoreUsesOwnTable ==
    call.name \in {"VectorStore", "insert", "query", "drop_table"}
        => call.on = {client.stores[call.store].table_name}


(***************************************************************************)
(* The claims about the construction of the client.                        *)
(***************************************************************************)
\* C25: the construction of a TiDBVectorClient with a distance strategy
\* that is none of the recognised ones raises a ValueError, and it neither
\* drops nor creates a table: the table, its rows and its definition are
\* what they were and no statement was sent, with drop_existing_table=True
\* as well.
C25_BadStrategyTouchesNoTable ==
    [][(/\ client = NotStarted /\ call'.name = "new"
        /\ call'.distance_strategy \notin DistanceStrategy \cup {NoDistance})
        => (/\ client'.t = "raised" /\ client'.err \in ValueErrors
            /\ db' = db /\ table' = table /\ stmts' = <<>>)]_vars

\* the construction with "inner_product" and drop_existing_table=True over
\* a table that holds a row raised and left the table and the row
C25_Witness ==
    /\ call.name = "new" /\ call.distance_strategy = "inner_product"
    /\ call.drop_existing_table
    /\ client.t = "raised" /\ client.err = "ValueError"
    /\ db.t = "table" /\ table # {}
    /\ stmts = <<>>


(***************************************************************************)
(* The claims about post-filtering.                                        *)
(***************************************************************************)
\* the n rows of the table nearest to the query vector
Nearest(q, n) ==
    {r \in table : Cardinality({r2 \in table : Distance(q, r2) < Distance(q, r)}) < n}

\* the list is the k nearest rows of the set, nearest first
IsTopK(list, rows, q, k) ==
    /\ Len(list) = (IF k < Cardinality(rows) THEN k ELSE Cardinality(rows))
    /\ \A i \in 1..Len(list) : list[i] \in rows
    /\ \A i, j \in 1..Len(list) :
          i < j => Distance(q, list[i]) < Distance(q, list[j])
    /\ \A r \in rows \ Range(list) :
          \A i \in 1..Len(list) : Distance(q, list[i]) <= Distance(q, r)

\* C26: with post_filter_enabled=True and a filter that is not empty, query
\* returns the k nearest of those rows that satisfy the filter and are
\* among the post_filter_multiplier * k * 10 rows nearest overall; this is
\* the result without post-filtering where the table holds no more rows
\* than that, and otherwise at most k matching rows, nearest first, and no
\* more than without post-filtering.  With the filter None or empty the
\* result is the one without post-filtering.
C26_PostFilterFromNearest ==
    (call.name = "query" /\ call.post /\ FilterCompiled) =>
        LET n == post_filter_multiplier * call.k * 10
            matching == {r \in table : Satisfies(r)}
        IN  IF filters = None \/ filters = Dict(<<>>)
            THEN IsTopK(results, matching, call.q, call.k)
            ELSE /\ IsTopK(results, matching \cap Nearest(call.q, n), call.q, call.k)
                 /\ Cardinality(table) <= n
                       => IsTopK(results, matching, call.q, call.k)
                 /\ Len(results) <= call.k
                 /\ Len(results) <= Cardinality(matching)

\* query(0, 1, {"page": 3, "cat": 2}) with post-filtering returned no row:
\* the one matching row is not among the 10 rows nearest to 0
C26_Witness ==
    /\ call.name = "query" /\ call.post
    /\ call.q = 0 /\ call.k = 1
    /\ filters = Dict(<<Entry(kPage, Sc(3)), Entry(kCat, Sc(2))>>)
    /\ results = <<>>
    /\ Cardinality(table) > post_filter_multiplier * call.k * 10
    /\ \E r \in table : Satisfies(r)


(***************************************************************************)
(* The claims about the arguments of insert.                               *)
(***************************************************************************)
\* C27 as claimed: every id insert returns is the id of a row in the table
\* that carries the text, the embedding and the metadata at the same
\* position of the arguments (an empty dict where no metadatas are given),
\* whatever the lengths of the arguments.
C27_ReturnedIdsAreStored ==
    (call.name = "insert" /\ ~call.raised) =>
        \A i \in 1..Len(call.returned) :
            /\ i <= Len(call.texts) /\ i <= Len(call.embeddings)
            /\ \E r \in table :
                  /\ r.id = call.returned[i]
                  /\ r.document = call.texts[i]
                  /\ r.embedding = call.embeddings[i]
                  /\ r.meta = metadatas_or_empty(call.texts, call.metadatas)[i]


(***************************************************************************)
(* The claims about the distance helpers.                                  *)
(***************************************************************************)
\* the database function of a metric
FunctionOf(metric) ==
    IF metric = "l1" THEN "VEC_L1_DISTANCE"
    ELSE IF metric = "l2" THEN "VEC_L2_DISTANCE"
    ELSE IF metric = "cosine" THEN "VEC_COSINE_DISTANCE"
    ELSE "VEC_NEGATIVE_INNER_PRODUCT"

\* C29 as claimed: in the SQLAlchemy comparator, the Peewee field, the
\* Django Func classes and DistanceMetric.to_sql_func, the helper named
\* after a metric emits the database function of that metric.
C29_HelperEmitsItsFunction ==
    call.name \in {"distance", "to_sql_func"}
        => call.emitted.function = FunctionOf(call.metric)


(***************************************************************************)
(* The claims about the schema generator.                                  *)
(***************************************************************************)
Issued(statement) == \E i \in 1..Len(stmts) : stmts[i] = statement

\* C30 as claimed: when the generator creates a vector index, the replica
\* statement is issued, before the index statement, exactly when the flag
\* has_tiflash_replica of the table was not set; the flag is set
\* afterwards; and the index statement is issued only for a table that has
\* a replica.
C30_ReplicaBeforeIndex ==
    (call.name = "VectorIndex.create" /\ stmts # <<>>) =>
        /\ (stmts[1] = "set tiflash replica") <=> ~call.flag
        /\ db.has_tiflash_replica
        /\ Issued("create vector index") => call.replicas >= 1

====
